---- MODULE Spec2Model ----
(***************************************************************************)
(* Lead Score Genius: the durable job state machine (lib/jobQueue, the     *)
(* Supabase-backed version) and the enrichment orchestrator                *)
(* (lib/scoreLeads.ts), as state machines.                                 *)
(*                                                                         *)
(* JobSpec  : one job row and its item rows in the store, and the          *)
(*            processLeadJob invocations ("workers") that GET polls start. *)
(*            Every await of the code is a separate step; a store write    *)
(*            is applied at the step that ends the await.                  *)
(* OrchSpec : one scoreLeads() run over a batch of leads.                  *)
(*                                                                         *)
(* Time is kept as ages (now - updated_at), saturating one above the       *)
(* staleness threshold; one unit of age is STALE_JOB_THRESHOLD_MS.         *)
(***************************************************************************)
EXTENDS Integers, Sequences, FiniteSets, TLC

\* ----------------------------------------------------------------- bounds
NumWorkers == 2
NumItems == 2
JobMaxConcurrency == 2
MaxCrashes == 1
MaxStoreErrors == 1
NumLeads == 3
MaxConcurrency == 2
MaxFaults == 2

\* part_001:7, in units of 60000 ms
STALE_JOB_THRESHOLD_MS == 1
AgeCap == STALE_JOB_THRESHOLD_MS + 1

\* scoreLeads.ts:20, the SCORE_BATCH_SIZE setting of the deployment modelled
SCORE_BATCH_SIZE == 2

Workers == 1..NumWorkers
Items == 1..NumItems
Leads == 1..NumLeads

Max(a, b) == IF a >= b THEN a ELSE b
Min(a, b) == IF a <= b THEN a ELSE b
SetMin(S) == CHOOSE x \in S : \A y \in S : x <= y

VARIABLES
    job,            \* the lead_jobs row: [status, processed, age]
    enq,            \* enqueueLeadJob: "start" | "jobRow" | "done"
    itemsInserted,  \* the lead_job_items rows exist
    leadIds,        \* payload.lead_id of each item
    itemStatus,     \* lead_job_items.status by item_index
    itemResult,     \* lead_job_items.result by item_index: 0 = null, k = the result of payload k
    wk,             \* the local state of each processLeadJob invocation
    crashes,        \* worker processes that died so far (LiveJobSpec)
    storeErrors,    \* store calls that returned an error so far
    oPc,            \* scoreLeads(): "idle" | "running" | "returned" | "thrown"
    leadIn,         \* the leads passed in: [company, location] by position
    lst,            \* where processLead is for each lead
    reviewPromiseCache, \* cache key -> the lead whose lookup promise is stored, 0 = no entry
    reviewPromise,  \* per lead, the lead whose lookup promise it awaits, 0 = none yet
    lookup,         \* per lead, the fetchGoogleMapsReviews call it started
    reviewSnapshot, \* per lead, reviewSnapshot.method
    scoringQueue,   \* leads waiting for a chunk
    scoringTimer,   \* the flush timer is armed
    scoringChain,   \* chunks handed to processScoreChunk, in order
    batches,        \* per lead, the results pushed for it, in order
    faults,         \* errors raised so far
    raisedFor,      \* per lead, an error was raised in one of its own steps
    lim,            \* the MapsLookupLimiter instance: its fields
    task,           \* per lookup, where getMapsSnapshot is and the host of its provided URL
    now,            \* Date.now()
    limOp,          \* the limiter operation the last step ran
    sigK,           \* throttle signals since a state with level 0, no success in between (-1: none such)
    sigKR,          \* throttle signals since the level was last 0, no success in between (-1: none such)
    sIds,           \* sort: lead_id of each input lead
    sQueue,         \* sort: leads not yet taken from the queue
    sWorkers,       \* sort: leads being processed
    sBatches,       \* sort: the results pushed, in completion order
    sOut,           \* sort: the returned list, <<>> before the return
    aborted,        \* cancel: the flag set by the abort listener
    cPc,            \* cancel: where scoreLeads() is
    cErr,           \* cancel: the error scoreLeads() rejects with, "none" before
    cStage,         \* cancel: where processLead is for each lead
    cBatches,       \* cancel: per lead, the results pushed to batches
    cProgress,      \* cancel: per lead, the onProgress calls made
    cDrain,         \* cancel: the leads whose score request drainScoringQueue awaits
    cMax,           \* cancel: options.maxConcurrency as the caller passed it
    scPc,           \* score: "idle" | "called" | "scored" | "fallback"
    scIn,           \* score: the lead's industry, the review snapshot, the website signals, the collaborator's reply
    scOut,          \* score: the LeadScoreResponse of the lead
    rPc,            \* resolve: where getMapsSnapshot is
    rIn,            \* resolve: the company name, the location, whether a provided URL resolves to a place URL
    rApi,           \* resolve: resolveViaApiQuery returned a place URL other than the provided one
    rTried,         \* resolve: methodsTried
    rHeadless,      \* resolve: headlessSnapshot
    rOut,           \* resolve: the returned snapshot
    rFrom,          \* resolve: the texts of the candidate the returned numbers were extracted from
    rIdentitySeen,  \* resolve: a candidate obtained so far contained an identity token of the company name
    rMismatch,      \* resolve: a listing candidate obtained so far failed identity verification
    rCache,         \* resolve: the entry of the module's cache under this call's cacheKey
    rNow,           \* resolve: Date.now()
    rCall,          \* resolve: the first or the second call with these arguments
    rFirst,         \* resolve: what the first call returned
    rCalledAt,      \* resolve: when each call was made
    rNet,           \* resolve: network requests issued by the current call
    rLog            \* resolve: the strategies the current call attempted, in order

jobVars == <<job, enq, itemsInserted, leadIds, itemStatus, itemResult, wk, crashes, storeErrors>>
orchVars == <<oPc, leadIn, lst, reviewPromiseCache, reviewPromise, lookup, reviewSnapshot,
              scoringQueue, scoringTimer, scoringChain, batches, faults, raisedFor>>
limVars == <<lim, task, now, limOp, sigK, sigKR>>
sortVars == <<sIds, sQueue, sWorkers, sBatches, sOut>>
cancelVars == <<aborted, cPc, cErr, cStage, cBatches, cProgress, cDrain, cMax>>
scoreVars == <<scPc, scIn, scOut>>
callVars == <<rNow, rCall, rFirst, rCalledAt>>
resolveVars == <<rPc, rIn, rApi, rTried, rHeadless, rOut, rFrom, rIdentitySeen, rMismatch,
                 rCache, rNet, rLog, callVars>>
vars == <<jobVars, orchVars, limVars, sortVars, cancelVars, scoreVars, resolveVars>>

\* ------------------------------------------------------------ job: store

\* lead ids of an upload: all distinct, or one id shared by every lead
LeadIdChoices == { [i \in Items |-> i], [i \in Items |-> 1] }

\* a lead of the running scoreLeads call: "none" (has a result already), "queued"
\* (in the work queue or being processed), "itemWrite" / "progWrite" (its onProgress
\* awaits the item update / the progress update), "done", "dropped" (still in the
\* work queue when scoreLeads threw)
WriteStates == {"itemWrite", "progWrite"}

InitWorker ==
    [ pc |-> "idle",
      jStatus |-> "none", jProcessed |-> 0, jAge |-> 0, casOk |-> FALSE,
      processedCount |-> 0, req |-> 0,
      lead |-> [i \in Items |-> "none"],
      idx |-> [i \in Items |-> 0],
      val |-> [i \in Items |-> 0] ]

Queued(r) == {i \in Items : r.lead[i] = "queued"}
Writing(r) == {i \in Items : r.lead[i] \in WriteStates}

\* scoreLeads worker loop: leads leave the queue in order while workers.length < maxConcurrency
Running(r) ==
    IF r.pc = "scoring"
      THEN {i \in Queued(r) :
              Cardinality({j \in Queued(r) : j < i}) + Cardinality(Writing(r)) < JobMaxConcurrency}
      ELSE Queued(r)


\* a returned invocation with no callback left running holds no state
Canon(r) ==
    IF r.pc = "idle" /\ Queued(r) = {} /\ Writing(r) = {} THEN InitWorker ELSE r

\* the set_updated_at trigger: every update of the row sets updated_at := now(),
\* so a reclaim request built before it no longer matches
Touch(w) == [x \in Workers |-> Canon([w[x] EXCEPT !.casOk = FALSE])]
Keep(w) == [x \in Workers |-> Canon(w[x])]

isJobStale(age) == age > STALE_JOB_THRESHOLD_MS

QueuedCasMatches_NoStatusGuard(j) == j.status # "none"
QueuedCasMatches(j) == j.status = "queued"

ReclaimCasMatches_NoCutoff(j, ok) == j.status = "processing"
ReclaimCasMatches(j, ok) == j.status = "processing" /\ ok

\* the store call of this step fails (an error object is returned)
StoreError == storeErrors < MaxStoreErrors /\ storeErrors' = storeErrors + 1
StoreOk == storeErrors' = storeErrors

\* before enqueueLeadJob: no row; e store calls have failed already
JobStart(e) ==
    /\ job = [status |-> "none", processed |-> 0, age |-> 0]
    /\ enq = "start"
    /\ itemsInserted = FALSE
    /\ leadIds \in LeadIdChoices
    /\ itemStatus = [i \in Items |-> "queued"]
    /\ itemResult = [i \in Items |-> 0]
    /\ wk = [w \in Workers |-> InitWorker]
    /\ crashes = 0
    /\ storeErrors = e

\* enqueueLeadJob: insert the job row
EnqueueJobRow ==
    /\ enq = "start"
    /\ enq' = "jobRow"
    /\ job' = [status |-> "queued", processed |-> 0, age |-> 0]
    /\ UNCHANGED <<itemsInserted, leadIds, itemStatus, itemResult, wk, crashes, storeErrors, orchVars, limVars, sortVars, cancelVars, scoreVars, resolveVars>>

\* enqueueLeadJob: insert the item rows, or throw when the insert fails
EnqueueItems ==
    /\ enq = "jobRow"
    /\ enq' = "done"
    /\ \/ StoreOk /\ itemsInserted' = TRUE
       \/ StoreError /\ itemsInserted' = FALSE
    /\ UNCHANGED <<job, leadIds, itemStatus, itemResult, wk, crashes, orchVars, limVars, sortVars, cancelVars, scoreVars, resolveVars>>

\* GET job(jobId): a non-terminal job with processed < total triggers processLeadJob
PollTriggers(j) == j.status \in {"queued", "processing"} /\ j.processed < NumItems

\* the job id reaches a client once enqueueLeadJob has returned or thrown
Poll(w) ==
    /\ enq = "done"
    /\ PollTriggers(job)
    /\ wk[w] = InitWorker
    /\ wk' = [wk EXCEPT ![w] = [InitWorker EXCEPT !.pc = "loadJob"]]
    /\ UNCHANGED <<job, enq, itemsInserted, leadIds, itemStatus, itemResult, crashes, storeErrors, orchVars, limVars, sortVars, cancelVars, scoreVars, resolveVars>>

\* loadJob: the read of the job row
LoadJobRow(w) ==
    /\ wk[w].pc \in {"loadJob", "reloadJob"}
    /\ wk' = [wk EXCEPT ![w] = [@ EXCEPT
                !.pc = IF @ = "loadJob" THEN "loadItems" ELSE "reloadItems",
                !.jStatus = job.status, !.jProcessed = job.processed, !.jAge = job.age]]
    /\ UNCHANGED <<job, enq, itemsInserted, leadIds, itemStatus, itemResult, crashes, storeErrors, orchVars, limVars, sortVars, cancelVars, scoreVars, resolveVars>>

\* loadJob returns (the items read ends) and claimLeadJob runs up to its await:
\* null for a terminal job and for a processing job that is not stale
ClaimLeadJob(w) ==
    /\ wk[w].pc = "loadItems"
    /\ LET r == [wk[w] EXCEPT !.jProcessed = 0] IN
       wk' = [wk EXCEPT ![w] =
            IF r.jStatus \in {"completed", "failed"}
              THEN [r EXCEPT !.pc = "claimNull", !.jAge = 0]
            ELSE IF r.jStatus = "queued"
              THEN [r EXCEPT !.pc = "casQueued", !.jAge = 0]
            ELSE IF ~isJobStale(r.jAge)
              THEN [r EXCEPT !.pc = "claimNull"]
            ELSE [r EXCEPT !.pc = "casReclaim",
                           !.casOk = (job.age >= STALE_JOB_THRESHOLD_MS)]]
    /\ UNCHANGED <<job, enq, itemsInserted, leadIds, itemStatus, itemResult, crashes, storeErrors, orchVars, limVars, sortVars, cancelVars, scoreVars, resolveVars>>

\* claimLeadJob, queued branch: update ... where status = 'queued'
ClaimQueuedApply(w) ==
    /\ wk[w].pc = "casQueued"
    /\ \/ /\ StoreOk
          /\ IF QueuedCasMatches(job)
               THEN /\ job' = [job EXCEPT !.status = "processing", !.age = 0]
                    /\ wk' = Touch([wk EXCEPT ![w] = [@ EXCEPT !.pc = "reloadJob"]])
               ELSE /\ job' = job
                    /\ wk' = [wk EXCEPT ![w] = [@ EXCEPT !.pc = "claimNull"]]
       \/ /\ StoreError
          /\ job' = job
          /\ wk' = [wk EXCEPT ![w] = [@ EXCEPT !.pc = "claimNull"]]
    /\ UNCHANGED <<enq, itemsInserted, leadIds, itemStatus, itemResult, crashes, orchVars, limVars, sortVars, cancelVars, scoreVars, resolveVars>>

\* claimLeadJob, processing branch: update ... where status = 'processing' and updated_at <= staleCutoff
ReclaimApply(w) ==
    /\ wk[w].pc = "casReclaim"
    /\ \/ /\ StoreOk
          /\ IF ReclaimCasMatches(job, wk[w].casOk)
               THEN /\ job' = [job EXCEPT !.status = "processing", !.age = 0]
                    /\ wk' = Touch([wk EXCEPT ![w] = [@ EXCEPT !.pc = "reloadJob"]])
               ELSE /\ job' = job
                    /\ wk' = [wk EXCEPT ![w] = [@ EXCEPT !.pc = "claimNull", !.casOk = FALSE]]
       \/ /\ StoreError
          /\ job' = job
          /\ wk' = [wk EXCEPT ![w] = [@ EXCEPT !.pc = "claimNull", !.casOk = FALSE]]
    /\ UNCHANGED <<enq, itemsInserted, leadIds, itemStatus, itemResult, crashes, orchVars, limVars, sortVars, cancelVars, scoreVars, resolveVars>>

\* processLeadJob: if (!claimed) return
ClaimReturnedNull(w) ==
    /\ wk[w].pc = "claimNull"
    /\ wk' = [wk EXCEPT ![w] = InitWorker]
    /\ UNCHANGED <<job, enq, itemsInserted, leadIds, itemStatus, itemResult, crashes, storeErrors, orchVars, limVars, sortVars, cancelVars, scoreVars, resolveVars>>

HasResult == IF itemsInserted THEN {i \in Items : itemResult[i] # 0} ELSE {}
pendingItems == IF itemsInserted THEN {i \in Items : itemResult[i] = 0} ELSE {}

\* items.filter(item => item.result).length, then Math.max(job.processed, processedSet)
InitialProcessedCount(jProcessed, processedSet) == Max(jProcessed, processedSet)

\* processLeadJob after the claim: the refreshed load returns; either finalize
\* (no item lacks a result: processed := items.length) or build indexQueues and
\* call scoreLeads
StartProcessing(w) ==
    /\ wk[w].pc = "reloadItems"
    /\ LET r == [wk[w] EXCEPT !.jStatus = "none", !.jProcessed = 0, !.jAge = 0] IN
       wk' = [wk EXCEPT ![w] =
            IF pendingItems = {}
              THEN [r EXCEPT !.pc = "finalize",
                             !.req = IF itemsInserted THEN NumItems ELSE 0]
              ELSE [r EXCEPT !.pc = "scoring",
                             !.processedCount =
                                InitialProcessedCount(wk[w].jProcessed, Cardinality(HasResult)),
                             !.lead = [i \in Items |-> IF i \in pendingItems THEN "queued" ELSE "none"]]]
    /\ UNCHANGED <<job, enq, itemsInserted, leadIds, itemStatus, itemResult, crashes, storeErrors, orchVars, limVars, sortVars, cancelVars, scoreVars, resolveVars>>

\* update({status: "completed", processed: ...}).eq("id", jobId): the finalize
\* branch, and the completion after scoreLeads returned
MarkCompletedApply(w) ==
    /\ wk[w].pc \in {"finalize", "complete"}
    /\ \/ /\ StoreOk
          /\ job' = [status |-> "completed", processed |-> wk[w].req, age |-> 0]
          /\ wk' = Touch([wk EXCEPT ![w] = [@ EXCEPT !.pc = "idle"]])
       \/ /\ StoreError
          /\ job' = job
          /\ wk' = Keep([wk EXCEPT ![w] = [@ EXCEPT !.pc = "idle"]])
    /\ UNCHANGED <<enq, itemsInserted, leadIds, itemStatus, itemResult, crashes, orchVars, limVars, sortVars, cancelVars, scoreVars, resolveVars>>

\* indexQueues.get(lead.lead_id).shift(): the lowest pending index of that lead id not handed out yet
indexQueueHead(r, k) ==
    LET q == {i \in Items : /\ r.lead[i] # "none"
                            /\ leadIds[i] = leadIds[k]
                            /\ \A m \in Items : r.idx[m] # i} IN
    IF q = {} THEN 0 ELSE SetMin(q)

\* the lead at position k is scored and onProgress starts for it: take the item
\* index and send the item update; with no index left onProgress returns at once
OnProgressStart(w, k) ==
    /\ k \in Running(wk[w])
    /\ LET i == indexQueueHead(wk[w], k) IN
       wk' = [wk EXCEPT ![w] =
                IF i = 0 THEN [@ EXCEPT !.lead[k] = "done"]
                ELSE [@ EXCEPT !.lead[k] = "itemWrite", !.idx[k] = i]]
    /\ UNCHANGED <<job, enq, itemsInserted, leadIds, itemStatus, itemResult, crashes, storeErrors, orchVars, limVars, sortVars, cancelVars, scoreVars, resolveVars>>

\* processedCount += 1 follows the item update whatever its outcome
CountAfterItemUpdate(count, ok) == count + 1

\* sanitizedResult: a copy of the result scoreLeads reported for the lead at position k
sanitizedResult_Null(k) == 0
sanitizedResult(k) == k

\* the item update is applied (or fails); onProgress goes on: processedCount += 1,
\* and the progress update carrying that value is sent
ItemUpdateApply(w, k) ==
    /\ wk[w].lead[k] = "itemWrite"
    /\ \E ok \in BOOLEAN :
        LET i == wk[w].idx[k]
            c == CountAfterItemUpdate(wk[w].processedCount, ok) IN
        /\ IF ok THEN StoreOk ELSE StoreError
        /\ IF ok
             THEN /\ itemStatus' = [itemStatus EXCEPT ![i] = "completed"]
                  /\ itemResult' = [itemResult EXCEPT ![i] = sanitizedResult(k)]
             ELSE UNCHANGED <<itemStatus, itemResult>>
        /\ wk' = [wk EXCEPT ![w] = [@ EXCEPT !.lead[k] = "progWrite",
                                            !.processedCount = c,
                                            !.val[k] = c]]
    /\ UNCHANGED <<job, enq, itemsInserted, leadIds, crashes, orchVars, limVars, sortVars, cancelVars, scoreVars, resolveVars>>

\* update({processed: processedCount}).eq("id", jobId)
ProgressWrite(j, value) == [j EXCEPT !.processed = value, !.age = 0]

\* the progress update is applied (or fails); onProgress returns, the lead is settled
ProgressApply(w, k) ==
    /\ wk[w].lead[k] = "progWrite"
    /\ LET r == [wk[w] EXCEPT !.lead[k] = "done", !.val[k] = 0] IN
       \/ /\ StoreOk
          /\ job' = ProgressWrite(job, wk[w].val[k])
          /\ wk' = Touch([wk EXCEPT ![w] = r])
       \/ /\ StoreError
          /\ job' = job
          /\ wk' = Keep([wk EXCEPT ![w] = r])
    /\ UNCHANGED <<enq, itemsInserted, leadIds, itemStatus, itemResult, crashes, orchVars, limVars, sortVars, cancelVars, scoreVars, resolveVars>>

\* scoreLeads returned: every lead settled; the completion update is sent with itemsByIndex.size
ScoreLeadsReturn(w) ==
    /\ wk[w].pc = "scoring"
    /\ \A i \in Items : wk[w].lead[i] \in {"none", "done"}
    /\ wk' = [wk EXCEPT ![w] = [@ EXCEPT !.pc = "complete", !.req = NumItems]]
    /\ UNCHANGED <<job, enq, itemsInserted, leadIds, itemStatus, itemResult, crashes, storeErrors, orchVars, limVars, sortVars, cancelVars, scoreVars, resolveVars>>

\* scoreLeads threw because processLead rejected for the lead at position k,
\* before reporting it or after its onProgress returned: the catch block sends the failed update with the current
\* processedCount; leads still in the work queue are never started, the other
\* leads already started keep running
ScoreLeadsThrow(w, k) ==
    /\ wk[w].pc = "scoring"
    /\ k \in Running(wk[w]) \/ wk[w].lead[k] = "done"
    /\ LET r == wk[w] IN
       wk' = [wk EXCEPT ![w] = [r EXCEPT
                !.pc = "failJob", !.req = r.processedCount,
                !.lead = [i \in Items |->
                            IF i = k THEN "done"
                            ELSE IF i \in Queued(r) \ Running(r) THEN "dropped"
                            ELSE r.lead[i]]]]
    /\ UNCHANGED <<job, enq, itemsInserted, leadIds, itemStatus, itemResult, crashes, storeErrors, orchVars, limVars, sortVars, cancelVars, scoreVars, resolveVars>>

\* update({status: "failed", error, processed: processedCount}).eq("id", jobId)
MarkFailedApply(w) ==
    /\ wk[w].pc = "failJob"
    /\ \/ /\ StoreOk
          /\ job' = [status |-> "failed", processed |-> wk[w].req, age |-> 0]
          /\ wk' = Touch([wk EXCEPT ![w] = [@ EXCEPT !.pc = "failItems", !.req = 0]])
       \/ /\ StoreError
          /\ job' = job
          /\ wk' = [wk EXCEPT ![w] = [@ EXCEPT !.pc = "failItems", !.req = 0]]
    /\ UNCHANGED <<enq, itemsInserted, leadIds, itemStatus, itemResult, crashes, orchVars, limVars, sortVars, cancelVars, scoreVars, resolveVars>>

\* update({status: "failed", error}).eq("job_id", jobId).in("status", ["queued", "processing"])
MarkRemainingFailedApply(w) ==
    /\ wk[w].pc = "failItems"
    /\ \/ /\ StoreOk
          /\ itemStatus' = [i \in Items |->
                IF itemsInserted /\ itemStatus[i] \in {"queued", "processing"}
                  THEN "failed" ELSE itemStatus[i]]
       \/ /\ StoreError
          /\ itemStatus' = itemStatus
    /\ wk' = Keep([wk EXCEPT ![w] = [@ EXCEPT !.pc = "idle"]])
    /\ UNCHANGED <<job, enq, itemsInserted, leadIds, itemResult, crashes, orchVars, limVars, sortVars, cancelVars, scoreVars, resolveVars>>

\* time passes: every age grows, saturating
Tick ==
    /\ job.status # "none"
    /\ job' = [job EXCEPT !.age = Min(@ + 1, AgeCap)]
    /\ wk' = [w \in Workers |->
                IF wk[w].pc = "loadItems"
                  THEN [wk[w] EXCEPT !.jAge = Min(@ + 1, AgeCap)]
                  ELSE wk[w]]
    /\ UNCHANGED <<enq, itemsInserted, leadIds, itemStatus, itemResult, crashes, storeErrors, orchVars, limVars, sortVars, cancelVars, scoreVars, resolveVars>>

\* the process running an invocation dies: nothing it had not yet written is written
Crash(w) ==
    /\ wk[w] # InitWorker
    /\ crashes < MaxCrashes
    /\ crashes' = crashes + 1
    /\ wk' = [wk EXCEPT ![w] = InitWorker]
    /\ UNCHANGED <<job, enq, itemsInserted, leadIds, itemStatus, itemResult, storeErrors, orchVars, limVars, sortVars, cancelVars, scoreVars, resolveVars>>

\* lead.company as uploaded, and the location column
RawCompanies == {"Acme Co", "acme  co ", "Bolt"}
Locations == {"NY", "LA"}

\* trim, lower-case, collapse runs of white space
normalizeKey(value) ==
    CASE value = "Acme Co" -> "acme co"
      [] value = "acme  co " -> "acme co"
      [] value = "Bolt" -> "bolt"
      [] OTHER -> ""

CacheKeys ==
    {<<"company", normalizeKey(c), "">> : c \in RawCompanies}
        \cup {<<"query", normalizeKey(c), l>> : c \in RawCompanies, l \in Locations}

\* the state of the orchestrator's variables for a run over the leads in
OrchStart(in, pc) ==
    /\ oPc = pc
    /\ leadIn = in
    /\ lst = [l \in Leads |-> "queued"]
    /\ reviewPromiseCache = [k \in CacheKeys |-> 0]
    /\ reviewPromise = [l \in Leads |-> 0]
    /\ lookup = [l \in Leads |-> "none"]
    /\ reviewSnapshot = [l \in Leads |-> "not_attempted"]
    /\ scoringQueue = <<>>
    /\ scoringTimer = FALSE
    /\ scoringChain = <<>>
    /\ batches = [l \in Leads |-> <<>>]
    /\ faults = 0
    /\ raisedFor = [l \in Leads |-> FALSE]

\* no scoreLeads() run is modelled
OrchIdle == OrchStart([l \in Leads |-> [company |-> "Acme Co", location |-> "NY"]], "idle")

\* ------------------------------------------------------- limiter: state

\* the lookups scheduled in a run, and the last instant modelled
NumTasks == 3
MaxNow == 5

\* the limiter configuration (maps.ts:686-692), one unit of time being 10 ms
LimMaxConcurrency == 2
minDelayMs == 1
baseBackoffMs == 1
maxBackoffMs == 2
backoffResetMs == 3
\* scheduleTimer: Math.max(delayMs, 10)
TimerFloorMs == 1
\* Date.now() when the limiter is created; lastStart = 0 lies at least minDelayMs back
StartTime == minDelayMs

Tasks == 1..NumTasks

\* the host of the URL a lead provides: none, a google.* URL, a goo.gl / maps.app.goo.gl short link
ProvidedHosts == {"none", "google", "goo.gl"}

\* 2^n
RECURSIVE Pow2(_)
Pow2(n) == IF n = 0 THEN 1 ELSE 2 * Pow2(n - 1)

\* Math.ceil(Math.log2(ratio)) for ratio = Math.max(maxBackoffMs / safeBase, 1)
RECURSIVE CeilLog2Ratio(_)
CeilLog2Ratio(n) == IF Pow2(n) * Max(baseBackoffMs, 1) >= maxBackoffMs THEN n ELSE CeilLog2Ratio(n + 1)

maxThrottleLevel == Max(1, CeilLog2Ratio(0) + 1)

\* sigK and sigKR stop counting here: the backoff delay is the same from maxThrottleLevel on
SigCap == maxThrottleLevel + 1

InitLimiter ==
    [ queue |-> <<>>, active |-> 0, lastStart |-> 0,
      throttleLevel |-> 0, throttleUntil |-> 0, lastThrottleAt |-> 0,
      pendingTimer |-> FALSE, pendingTimerAt |-> 0 ]

InitTask == [st |-> "idle", provided |-> "none"]

\* the limiter as created, no lookup scheduled yet
LimStart ==
    /\ lim = InitLimiter
    /\ task = [t \in Tasks |-> InitTask]
    /\ now = StartTime
    /\ limOp = "none"
    /\ sigK = 0
    /\ sigKR = 0

\* ---------------------------------------------------------- sort: state

NumSortLeads == 3
SortMaxConcurrency == 2
SortLeads == 1..NumSortLeads

SortStart(ids, queue) ==
    /\ sIds = ids
    /\ sQueue = queue
    /\ sWorkers = {}
    /\ sBatches = <<>>
    /\ sOut = <<>>

\* no scoreLeads() run whose order is followed
SortIdle == SortStart([l \in SortLeads |-> 1], <<>>)

\* -------------------------------------------------------- cancel: state

NumCancelLeads == 3
CancelMaxConcurrency == 2
CancelLeads == 1..NumCancelLeads

\* scoreLeads(leads, {signal}) up to the worker loop: aborted = signal.aborted
CancelStart(flag, pc) ==
    /\ aborted = flag
    /\ cPc = pc
    /\ cErr = "none"
    /\ cStage = [l \in CancelLeads |-> "queued"]
    /\ cBatches = [l \in CancelLeads |-> 0]
    /\ cProgress = [l \in CancelLeads |-> 0]
    /\ cDrain = {}

\* no scoreLeads() run with a signal
CancelIdle == CancelStart(FALSE, "idle") /\ cMax = CancelMaxConcurrency

\* --------------------------------------------------------- score: state

\* strings are sequences of characters
IndUndefined == [defined |-> FALSE, text |-> <<>>]
IndEmpty == [defined |-> TRUE, text |-> <<>>]
IndRealEstate == [defined |-> TRUE, text |-> <<" ", "R", "e", "a", "l", " ", "E", "s", "t", "a", "t", "e", " ">>]
IndMarketing == [defined |-> TRUE, text |-> <<"M", "a", "r", "k", "e", "t", "i", "n", "g">>]
IndPlumbing == [defined |-> TRUE, text |-> <<"P", "L", "U", "M", "B", "I", "N", "G">>]
IndInsuranceAgency == [defined |-> TRUE, text |-> <<"I", "n", "s", "u", "r", "a", "n", "c", "e", " ", "A", "g", "e", "n", "c", "y">>]
IndFinancialAdvisor == [defined |-> TRUE, text |-> <<"F", "i", "n", "a", "n", "c", "i", "a", "l", " ", "a", "d", "v", "i", "s", "o", "r">>]
IndBakery == [defined |-> TRUE, text |-> <<"B", "a", "k", "e", "r", "y">>]
Industries == {IndUndefined, IndEmpty, IndRealEstate, IndMarketing, IndPlumbing, IndInsuranceAgency, IndFinancialAdvisor, IndBakery}

\* the upper-case letters of the industries and their lower-case forms
UpperCase == {"A", "B", "C", "D", "E", "F", "G", "H", "I", "J", "K", "L", "M", "N", "O", "P", "Q", "R", "S", "T", "U", "V", "W", "X", "Y", "Z"}
LowerOf == [A |-> "a", B |-> "b", C |-> "c", D |-> "d", E |-> "e", F |-> "f", G |-> "g", H |-> "h", I |-> "i", J |-> "j", K |-> "k", L |-> "l", M |-> "m", N |-> "n", O |-> "o", P |-> "p", Q |-> "q", R |-> "r", S |-> "s", T |-> "t", U |-> "u", V |-> "v", W |-> "w", X |-> "x", Y |-> "y", Z |-> "z"]

\* numbers are kept in tenths (sub-scores, ratings), thousandths (weights, the
\* weighted sum) and hundredths (final scores)
Tenth == 10
Thousandth == 1000

\* a JavaScript value of a number field: undefined, null, a value that is not
\* a finite number, or a number
Undefined == [t |-> "undefined", v |-> 0]
Null == [t |-> "null", v |-> 0]
NotFinite == [t |-> "NaN", v |-> 0]
Num(x) == [t |-> "number", v |-> x]

\* what the collaborator's reply holds in a sub-score field, in tenths
RawValues == {Undefined, NotFinite, Num(-4), Num(45), Num(70), Num(130)}
RawFew == {Undefined, Num(130)}

\* review snapshots: rating in tenths, review count
Ratings == {Null, Num(25), Num(30), Num(45)}
ReviewCounts == {Null, Num(0), Num(5), Num(10), Num(50)}

\* website?.finalScore in tenths, undefined without website signals
WebsiteFinalScores == {Undefined, Num(62)}

\* the collaborator's final_score in hundredths
RawFinalScores == {Undefined, Num(990)}

ScoreInputs ==
    [industry : Industries,
     rating : Ratings,
     count : ReviewCounts,
     websiteFinal : WebsiteFinalScores,
     rawWebsite : RawValues,
     rawReviews : RawFew,
     rawYears : RawFew,
     rawRevenue : RawFew,
     rawFit : RawFew,
     rawFinal : RawFinalScores]

Factors == {"website_activity", "reviews", "years_in_business", "revenue_proxies", "industry_fit"}
NoWeights == [f \in Factors |-> 0]
NoScores == [f \in Factors |-> 0]
NoResponse == [scores |-> NoScores, weights_applied |-> NoWeights, final_score |-> 0, interpretation |-> "none"]

ScoreStart(in, pc) ==
    /\ scPc = pc
    /\ scIn = in
    /\ scOut = NoResponse

\* no lead is being scored
ScoreIdle ==
    ScoreStart([industry |-> IndUndefined, rating |-> Null, count |-> Null, websiteFinal |-> Undefined,
                rawWebsite |-> Undefined, rawReviews |-> Undefined, rawYears |-> Undefined,
                rawRevenue |-> Undefined, rawFit |-> Undefined, rawFinal |-> Undefined], "idle")

\* ------------------------------------------------------- resolve: state

CoUndefined == [defined |-> FALSE, text |-> <<>>]
CoZedConsulting == [defined |-> TRUE, text |-> <<"Z", "e", "d", " ", "C", "o", "n", "s", "u", "l", "t", "i", "n", "g">>]
CoAcmePlumbing == [defined |-> TRUE, text |-> <<"A", "c", "m", "e", "P", "l", "u", "m", "b", "i", "n", "g">>]
CoAcmeCo == [defined |-> TRUE, text |-> <<"A", "c", "m", "e", " ", "C", "o">>]
CompanyNames == {CoUndefined, CoZedConsulting, CoAcmePlumbing, CoAcmeCo}
LeadLocations == {<<>>, <<"A", "u", "s", "t", "i", "n">>}

\* listing pages the upstream may answer with: the response URL, the <title>,
\* the html, what the page's markup yields (rating in tenths)
NoPage == [url |-> <<>>, title |-> <<>>, html |-> <<>>, rating |-> Null, count |-> Null, markup |-> "none"]
PgZed ==
    [url |-> <<"h", "t", "t", "p", "s", ":", "/", "/", "w", "w", "w", ".", "g", "o", "o", "g", "l", "e", ".", "c", "o", "m", "/", "m", "a", "p", "s", "/", "p", "l", "a", "c", "e", "/", "Z", "e", "d", "+", "C", "o", "n", "s", "u", "l", "t", "i", "n", "g">>,
     title |-> <<"Z", "e", "d", " ", "C", "o", "n", "s", "u", "l", "t", "i", "n", "g", " ", "-", " ", "G", "o", "o", "g", "l", "e", " ", "M", "a", "p", "s">>,
     html |-> <<"Z", "e", "d", " ", "C", "o", "n", "s", "u", "l", "t", "i", "n", "g", ",", " ", "A", "u", "s", "t", "i", "n">>,
     rating |-> Num(45), count |-> Num(120), markup |-> "ldjson"]
PgDiner ==
    [url |-> <<"h", "t", "t", "p", "s", ":", "/", "/", "w", "w", "w", ".", "g", "o", "o", "g", "l", "e", ".", "c", "o", "m", "/", "m", "a", "p", "s", "/", "p", "l", "a", "c", "e", "/", "B", "o", "b", "s", "+", "D", "i", "n", "e", "r">>,
     title |-> <<"B", "o", "b", "s", " ", "D", "i", "n", "e", "r", " ", "-", " ", "G", "o", "o", "g", "l", "e", " ", "M", "a", "p", "s">>,
     html |-> <<"D", "i", "n", "e", "r", " ", "i", "n", " ", "A", "u", "s", "t", "i", "n">>,
     rating |-> Num(40), count |-> Num(10), markup |-> "aria"]
PgZedDental ==
    [url |-> <<"h", "t", "t", "p", "s", ":", "/", "/", "w", "w", "w", ".", "g", "o", "o", "g", "l", "e", ".", "c", "o", "m", "/", "m", "a", "p", "s", "/", "p", "l", "a", "c", "e", "/", "Z", "e", "d", "+", "D", "e", "n", "t", "a", "l">>,
     title |-> <<"Z", "e", "d", " ", "D", "e", "n", "t", "a", "l">>,
     html |-> <<"D", "e", "n", "t", "i", "s", "t">>,
     rating |-> Num(30), count |-> Num(5), markup |-> "regex"]
PgSplit ==
    [url |-> <<"h", "t", "t", "p", "s", ":", "/", "/", "w", "w", "w", ".", "g", "o", "o", "g", "l", "e", ".", "c", "o", "m", "/", "m", "a", "p", "s", "/", "p", "l", "a", "c", "e", "/", "Z", "e", "d">>,
     title |-> <<"C", "o", "n", "s", "u", "l", "t", "i", "n", "g", " ", "G", "r", "o", "u", "p">>,
     html |-> <<>>,
     rating |-> Num(50), count |-> Num(1), markup |-> "ldjson"]
PgAcme ==
    [url |-> <<"h", "t", "t", "p", "s", ":", "/", "/", "w", "w", "w", ".", "g", "o", "o", "g", "l", "e", ".", "c", "o", "m", "/", "m", "a", "p", "s", "/", "p", "l", "a", "c", "e", "/", "a", "c", "m", "e", "p", "l", "u", "m", "b", "i", "n", "g">>,
     title |-> <<"A", "c", "m", "e", " ", "P", "l", "u", "m", "b", "i", "n", "g">>,
     html |-> <<"P", "l", "u", "m", "b", "e", "r", " ", "i", "n", " ", "A", "u", "s", "t", "i", "n">>,
     rating |-> Num(48), count |-> Num(50), markup |-> "aria"]
PgBare ==
    [url |-> <<"h", "t", "t", "p", "s", ":", "/", "/", "w", "w", "w", ".", "g", "o", "o", "g", "l", "e", ".", "c", "o", "m", "/", "m", "a", "p", "s", "/", "p", "l", "a", "c", "e", "/", "Z", "e", "d", "+", "C", "o", "n", "s", "u", "l", "t", "i", "n", "g">>,
     title |-> <<"Z", "e", "d", " ", "C", "o", "n", "s", "u", "l", "t", "i", "n", "g">>,
     html |-> <<>>,
     rating |-> Null, count |-> Null, markup |-> "none"]
Pages == {PgZed, PgDiner, PgZedDental, PgSplit, PgAcme, PgBare}

\* what the headless browser may extract: name, title, address, numbers, strategy
RdZed ==
    [name |-> <<"Z", "e", "d", " ", "C", "o", "n", "s", "u", "l", "t", "i", "n", "g">>,
     title |-> <<"Z", "e", "d", " ", "C", "o", "n", "s", "u", "l", "t", "i", "n", "g", " ", "-", " ", "G", "o", "o", "g", "l", "e", " ", "M", "a", "p", "s">>,
     address |-> <<"A", "u", "s", "t", "i", "n">>,
     rating |-> Num(45), count |-> Num(120), strategy |-> "headless_place"]
RdDiner ==
    [name |-> <<"B", "o", "b", "s", " ", "D", "i", "n", "e", "r">>,
     title |-> <<"B", "o", "b", "s", " ", "D", "i", "n", "e", "r", " ", "-", " ", "G", "o", "o", "g", "l", "e", " ", "M", "a", "p", "s">>,
     address |-> <<"A", "u", "s", "t", "i", "n">>,
     rating |-> Num(40), count |-> Num(10), strategy |-> "headless_serp_panel"]
Rendered == {RdZed, RdDiner}

\* candidates of a text-proxy response: the snippet around a rating pattern match
SnZed == [snippet |-> <<"Z", "e", "d", " ", "C", "o", "n", "s", "u", "l", "t", "i", "n", "g", " ", "4", ".", "5", " ", "(", "1", "2", "0", ")", " ", "C", "o", "n", "s", "u", "l", "t", "a", "n", "t">>, rating |-> Num(45), reviewCount |-> Num(120)]
SnDiner == [snippet |-> <<"B", "o", "b", "s", " ", "D", "i", "n", "e", "r", " ", "4", ".", "0", " ", "(", "1", "0", ")", " ", "D", "i", "n", "e", "r", " ", "A", "u", "s", "t", "i", "n">>, rating |-> Num(40), reviewCount |-> Num(10)]
SnZedDental == [snippet |-> <<"Z", "e", "d", " ", "D", "e", "n", "t", "a", "l", " ", "3", ".", "0", " ", "(", "5", ")", " ", "D", "e", "n", "t", "i", "s", "t">>, rating |-> Num(30), reviewCount |-> Num(5)]
JinaResponses == {<<>>, <<SnDiner>>, <<SnZedDental>>, <<SnDiner, SnZed>>}

ResolveInputs ==
    {[company |-> c, location |-> l, provided |-> p] :
        c \in CompanyNames, l \in LeadLocations, p \in BOOLEAN}

NullSnapshot == [averageRating |-> Null, reviewCount |-> Null, method |-> "null"]
NoTexts == <<>>

\* the cache lifetime, in clock ticks, and the last clock value
MAPS_CACHE_TTL_MS == 2
ResolveMaxNow == 2
NoEntry == [snapshot |-> NullSnapshot, expiresAt |-> 0]

ResolveStart(in, pc) ==
    /\ rPc = pc
    /\ rIn = in
    /\ rApi = FALSE
    /\ rTried = <<>>
    /\ rHeadless = NullSnapshot
    /\ rOut = NullSnapshot
    /\ rFrom = NoTexts
    /\ rIdentitySeen = FALSE
    /\ rMismatch = FALSE
    /\ rCache = NoEntry
    /\ rNow = 0
    /\ rCall = 1
    /\ rFirst = NullSnapshot
    /\ rCalledAt = [c \in {1, 2} |-> 0]
    /\ rNet = 0
    /\ rLog = <<>>

\* no lookup is being resolved
ResolveIdle == ResolveStart([company |-> CoUndefined, location |-> <<>>, provided |-> FALSE], "idle")

WorkerStep(w) ==
    \/ Poll(w)
    \/ LoadJobRow(w)
    \/ ClaimLeadJob(w)
    \/ ClaimQueuedApply(w)
    \/ ReclaimApply(w)
    \/ ClaimReturnedNull(w)
    \/ StartProcessing(w)
    \/ MarkCompletedApply(w)
    \/ ScoreLeadsReturn(w)
    \/ MarkFailedApply(w)
    \/ MarkRemainingFailedApply(w)
    \/ \E k \in Items :
        \/ OnProgressStart(w, k)
        \/ ItemUpdateApply(w, k)
        \/ ProgressApply(w, k)
        \/ ScoreLeadsThrow(w, k)

JobNext ==
    \/ EnqueueJobRow
    \/ EnqueueItems
    \/ Tick
    \/ \E w \in Workers : WorkerStep(w)

JobInit == JobStart(0) /\ OrchIdle /\ LimStart /\ SortIdle /\ CancelIdle /\ ScoreIdle /\ ResolveIdle

JobSpec == JobInit /\ [][JobNext]_vars

LiveJobNext ==
    \/ JobNext
    \/ \E w \in Workers : Crash(w)

\* the store answers every call
LiveJobInit == JobStart(MaxStoreErrors) /\ OrchIdle /\ LimStart /\ SortIdle /\ CancelIdle /\ ScoreIdle /\ ResolveIdle

\* the submitter keeps polling and live invocations keep running; time passes
LiveJobSpec ==
    /\ LiveJobInit /\ [][LiveJobNext]_vars
    /\ WF_vars(EnqueueJobRow \/ EnqueueItems)
    /\ WF_vars(Tick)
    /\ \A w \in Workers : WF_vars(WorkerStep(w))

\* ------------------------------------------------------------ job: claims

Terminal == {"completed", "failed"}

\* C1: the persisted processed value of a job never decreases, whatever the
\* order in which the progress writes of one or several workers reach the store.
C1_ProcessedNeverDecreases == [][job.processed' >= job.processed]_vars

\* C2: in every reachable state the persisted processed is at most total.
C2_ProcessedAtMostTotal == job.status # "none" => job.processed <= NumItems

\* C3: whenever the job's status is completed, processed equals total.
C3_CompletedImpliesAllProcessed == job.status = "completed" => job.processed = NumItems

\* C4: of the claims racing for a queued job exactly one succeeds: a claim whose
\* conditional update reaches a still queued job wins and makes it processing,
\* every other claim returns null and leaves the job as it was, and no job ever
\* returns to queued, so there is no second winner.
C4_QueuedClaimExactlyOnce ==
    [][ /\ job'.status = "queued" => job.status \in {"none", "queued"}
        /\ \A w \in Workers :
            (wk[w].pc = "casQueued" /\ wk'[w].pc # "casQueued") =>
                IF job.status = "queued" /\ storeErrors' = storeErrors
                  THEN job'.status = "processing" /\ wk'[w].pc = "reloadJob"
                  ELSE job' = job /\ wk'[w].pc = "claimNull" ]_vars

\* one worker holds the claim it won on the queued job, the other one's claim came back null
C4_Witness ==
    \E w1, w2 \in Workers :
        /\ w1 # w2
        /\ wk[w1].pc = "reloadJob" /\ wk[w1].jStatus = "queued"
        /\ wk[w2].pc = "claimNull" /\ wk[w2].jStatus = "queued"
        /\ storeErrors = 0

\* C5: a claim on a processing job that is not stale returns null and changes
\* nothing; a reclaim succeeds only on a row that is processing and has not been
\* updated for the threshold, it refreshes the row, and no reclaim that was in
\* flight with it can succeed afterwards.
C5_ReclaimOnlyStaleOnce ==
    /\ [](\A w \in Workers :
            (wk[w].pc = "casReclaim" /\ wk[w].casOk) => job.age >= STALE_JOB_THRESHOLD_MS)
    /\ [][ \A w \in Workers :
            /\ ( /\ wk[w].pc = "loadItems" /\ wk'[w].pc # "loadItems" /\ crashes' = crashes
                 /\ wk[w].jStatus = "processing" /\ wk[w].jAge <= STALE_JOB_THRESHOLD_MS ) =>
                    (wk'[w].pc = "claimNull" /\ job' = job)
            /\ (wk[w].pc = "casReclaim" /\ wk'[w].pc = "reloadJob") =>
                /\ job.status = "processing" /\ job.age >= STALE_JOB_THRESHOLD_MS
                /\ job'.status = "processing" /\ job'.age = 0
                /\ \A v \in Workers \ {w} :
                    wk[v].pc = "casReclaim" => (wk'[v].pc = "casReclaim" /\ ~wk'[v].casOk) ]_vars

\* one worker reclaimed the stale job, the other one's concurrent reclaim came back null
C5_Witness ==
    \E w1, w2 \in Workers :
        /\ w1 # w2
        /\ wk[w1].pc = "reloadJob" /\ wk[w1].jStatus = "processing"
        /\ wk[w2].pc = "claimNull" /\ wk[w2].jStatus = "processing"
        /\ wk[w2].jAge > STALE_JOB_THRESHOLD_MS

\* C6: the status only moves queued -> processing -> completed | failed, and a
\* completed or failed job never changes status again.
C6_StatusOnlyMovesForward ==
    [][ \/ job'.status = job.status
        \/ job.status = "none" /\ job'.status = "queued"
        \/ job.status = "queued" /\ job'.status = "processing"
        \/ job.status = "processing" /\ job'.status \in Terminal ]_vars

\* C7: once a worker has died on a claimed job, the job does not stay
\* processing forever: it reaches completed or failed.
C7_DeadWorkerJobFinishes ==
    (crashes > 0 /\ job.status = "processing") ~> (job.status \in Terminal)

\* ------------------------------------------------------------ orchestrator

\* the batches passed to scoreLeads
LeadBatches ==
    {in \in [Leads -> [company : RawCompanies, location : Locations]] :
        in[1] = [company |-> "Acme Co", location |-> "NY"]}

companyKey(l) == <<"company", normalizeKey(leadIn[l].company), "">>
queryKey(l) == <<"query", normalizeKey(leadIn[l].company), leadIn[l].location>>
reviewCacheKeys(l) == {companyKey(l), queryKey(l)}

\* processLead has started and not settled
OrchActive == {l \in Leads : lst[l] \in {"awaitReview", "awaitScore", "reporting", "reportingFallback"}}
OrchQueued == {l \in Leads : lst[l] = "queued"}

\* the worker loop: queue.shift() while workers.length < maxConcurrency; a lead
\* taken from the queue is in cleanLeadRecord until CleanDone
Admitted_All == OrchQueued
Admitted ==
    {l \in OrchQueued :
        Cardinality({m \in OrchQueued : m < l}) + Cardinality(OrchActive) < MaxConcurrency}

Fault == faults < MaxFaults /\ faults' = faults + 1
NoFault == faults' = faults

\* the catch block of processLead: push the fallback result, call onProgress
PushFallback(b, l) == [b EXCEPT ![l] = Append(@, "fallback")]

\* the first cache entry among the lead's keys, in insertion order (company, query)
CacheHit(l) ==
    IF reviewPromiseCache[companyKey(l)] # 0 THEN reviewPromiseCache[companyKey(l)]
    ELSE reviewPromiseCache[queryKey(l)]

\* delete the keys in ks that still hold promise p
EvictOwn(cache, ks, p) == [k \in CacheKeys |-> IF k \in ks /\ cache[k] = p THEN 0 ELSE cache[k]]

\* the finally block: delete company:<normalizeKey(lead.company)> after a not_found snapshot
FinallyEvict(cache, l) ==
    IF reviewSnapshot[l] = "not_found" THEN [cache EXCEPT ![companyKey(l)] = 0] ELSE cache

OrchInit ==
    /\ JobStart(0) /\ leadIds = [i \in Items |-> i]
    /\ \E in \in LeadBatches : OrchStart(in, "running")
    /\ LimStart /\ SortIdle /\ CancelIdle /\ ScoreIdle /\ ResolveIdle

\* cleanLeadRecord returned: derive the keys, reuse a cached lookup or start one
\* and store it under every key
CleanDone(l) ==
    /\ oPc = "running"
    /\ l \in Admitted
    /\ NoFault
    /\ lst' = [lst EXCEPT ![l] = "awaitReview"]
    /\ IF CacheHit(l) # 0
         THEN /\ reviewPromise' = [reviewPromise EXCEPT ![l] = CacheHit(l)]
              /\ UNCHANGED <<lookup, reviewPromiseCache>>
         ELSE /\ reviewPromise' = [reviewPromise EXCEPT ![l] = l]
              /\ lookup' = [lookup EXCEPT ![l] = "pending"]
              /\ reviewPromiseCache' =
                    [k \in CacheKeys |-> IF k \in reviewCacheKeys(l) THEN l ELSE reviewPromiseCache[k]]
    /\ UNCHANGED <<oPc, leadIn, reviewSnapshot, scoringQueue, scoringTimer, scoringChain,
                   batches, raisedFor, jobVars, limVars, sortVars, cancelVars, scoreVars, resolveVars>>

\* cleanLeadRecord threw
CleanFails(l) ==
    /\ oPc = "running"
    /\ l \in Admitted
    /\ Fault
    /\ raisedFor' = [raisedFor EXCEPT ![l] = TRUE]
    /\ batches' = PushFallback(batches, l)
    /\ lst' = [lst EXCEPT ![l] = "reportingFallback"]
    /\ UNCHANGED <<oPc, leadIn, reviewPromiseCache, reviewPromise, lookup, reviewSnapshot,
                   scoringQueue, scoringTimer, scoringChain, jobVars, limVars, sortVars, cancelVars, scoreVars, resolveVars>>

\* a fetchGoogleMapsReviews call settles; on rejection its catch handler deletes
\* the keys that still hold it
LookupSettles(p) ==
    /\ oPc = "running"
    /\ lookup[p] = "pending"
    /\ \/ /\ NoFault
          /\ \E m \in {"found", "not_found"} : lookup' = [lookup EXCEPT ![p] = m]
          /\ UNCHANGED reviewPromiseCache
       \/ /\ Fault
          /\ lookup' = [lookup EXCEPT ![p] = "rejected"]
          /\ reviewPromiseCache' = EvictOwn(reviewPromiseCache, reviewCacheKeys(p), p)
    /\ UNCHANGED <<oPc, leadIn, lst, reviewPromise, reviewSnapshot, scoringQueue, scoringTimer,
                   scoringChain, batches, raisedFor, jobVars, limVars, sortVars, cancelVars, scoreVars, resolveVars>>

\* scheduleScoreFlush after a push: full chunks go to the chain, a remainder arms the timer
FlushedQueue(q) == IF Len(q) >= SCORE_BATCH_SIZE THEN SubSeq(q, SCORE_BATCH_SIZE + 1, Len(q)) ELSE q
FlushedChain(q, chain) ==
    IF Len(q) >= SCORE_BATCH_SIZE THEN Append(chain, SubSeq(q, 1, SCORE_BATCH_SIZE)) ELSE chain

\* await reviewPromise returned for lead l: a null snapshot deletes the lead's
\* keys that still hold the promise; the website result is awaited; the lead is
\* submitted for scoring
AfterReview(l) ==
    /\ oPc = "running"
    /\ lst[l] = "awaitReview"
    /\ lookup[reviewPromise[l]] \in {"found", "not_found"}
    /\ NoFault
    /\ reviewSnapshot' = [reviewSnapshot EXCEPT ![l] = lookup[reviewPromise[l]]]
    /\ reviewPromiseCache' =
            IF lookup[reviewPromise[l]] = "not_found"
              THEN EvictOwn(reviewPromiseCache, reviewCacheKeys(l), reviewPromise[l])
              ELSE reviewPromiseCache
    /\ LET q == Append(scoringQueue, l) IN
        /\ scoringQueue' = FlushedQueue(q)
        /\ scoringChain' = FlushedChain(q, scoringChain)
        /\ scoringTimer' = (scoringTimer \/ FlushedQueue(q) # <<>>)
    /\ lst' = [lst EXCEPT ![l] = "awaitScore"]
    /\ UNCHANGED <<oPc, leadIn, reviewPromise, lookup, batches, raisedFor, jobVars, limVars, sortVars, cancelVars, scoreVars, resolveVars>>

\* await reviewPromise threw for lead l (the lookup was rejected), or the
\* website analysis threw after the snapshot was read
EnrichmentFails(l) ==
    /\ oPc = "running"
    /\ lst[l] = "awaitReview"
    /\ \/ /\ lookup[reviewPromise[l]] = "rejected"
          /\ NoFault
          /\ UNCHANGED <<reviewSnapshot, reviewPromiseCache>>
       \/ /\ lookup[reviewPromise[l]] \in {"found", "not_found"}
          /\ Fault
          /\ reviewSnapshot' = [reviewSnapshot EXCEPT ![l] = lookup[reviewPromise[l]]]
          /\ reviewPromiseCache' =
                IF lookup[reviewPromise[l]] = "not_found"
                  THEN EvictOwn(reviewPromiseCache, reviewCacheKeys(l), reviewPromise[l])
                  ELSE reviewPromiseCache
    /\ raisedFor' = [raisedFor EXCEPT ![l] = TRUE]
    /\ batches' = PushFallback(batches, l)
    /\ lst' = [lst EXCEPT ![l] = "reportingFallback"]
    /\ UNCHANGED <<oPc, leadIn, reviewPromise, lookup, scoringQueue, scoringTimer, scoringChain, jobVars, limVars, sortVars, cancelVars, scoreVars, resolveVars>>

\* the flush timer fires: whatever is queued becomes one chunk
ScoreFlushTimer ==
    /\ oPc = "running"
    /\ scoringTimer
    /\ scoringTimer' = FALSE
    /\ scoringQueue' = <<>>
    /\ scoringChain' = IF scoringQueue # <<>> THEN Append(scoringChain, scoringQueue) ELSE scoringChain
    /\ UNCHANGED <<oPc, leadIn, lst, reviewPromiseCache, reviewPromise, lookup, reviewSnapshot,
                   batches, faults, raisedFor, jobVars, limVars, sortVars, cancelVars, scoreVars, resolveVars>>

InChunk(c) == {c[i] : i \in 1..Len(c)}

\* the outcome of one scoreLeadBatchWithModel call for the leads of a chunk:
\* every lead is resolved with its score, or, when the call throws, every lead
\* of the chunk is rejected
ChunkOutcome(c, ok) == [l \in InChunk(c) |-> ok]

\* processScoreChunk for the next chunk of the chain: the call returns one score
\* per lead, or it fails on the response for lead bad; each lead of the chunk
\* pushes its result (the score, or the fallback from its catch block) and
\* calls onProgress
ProcessScoreChunk ==
    /\ oPc = "running"
    /\ scoringChain # <<>>
    /\ LET c == Head(scoringChain) IN
       \E ok \in BOOLEAN, bad \in InChunk(c) :
        LET out == ChunkOutcome(c, ok) IN
        /\ IF ok THEN NoFault ELSE Fault
        /\ raisedFor' = [l \in Leads |-> raisedFor[l] \/ (~ok /\ l = bad)]
        /\ batches' = [l \in Leads |->
                        IF l \notin InChunk(c) THEN batches[l]
                        ELSE IF out[l] THEN Append(batches[l], "score")
                        ELSE Append(batches[l], "fallback")]
        /\ lst' = [l \in Leads |->
                        IF l \notin InChunk(c) THEN lst[l]
                        ELSE IF out[l] THEN "reporting" ELSE "reportingFallback"]
    /\ scoringChain' = Tail(scoringChain)
    /\ UNCHANGED <<oPc, leadIn, reviewPromiseCache, reviewPromise, lookup, reviewSnapshot,
                   scoringQueue, scoringTimer, jobVars, limVars, sortVars, cancelVars, scoreVars, resolveVars>>

\* onProgress returned for lead l: the finally block runs and processLead settles
ProgressReturns(l) ==
    /\ oPc = "running"
    /\ lst[l] \in {"reporting", "reportingFallback"}
    /\ NoFault
    /\ reviewPromiseCache' = FinallyEvict(reviewPromiseCache, l)
    /\ lst' = [lst EXCEPT ![l] = "settled"]
    /\ UNCHANGED <<oPc, leadIn, reviewPromise, lookup, reviewSnapshot, scoringQueue, scoringTimer,
                   scoringChain, batches, raisedFor, jobVars, limVars, sortVars, cancelVars, scoreVars, resolveVars>>

\* what the catch block does with an error thrown by onProgress in the try block
AfterProgressError(b, l) == PushFallback(b, l)

\* onProgress threw for lead l. In the try block: the catch block pushes the
\* fallback result and calls onProgress again. In the catch block: the finally
\* block runs, processLead rejects, Promise.race rejects and scoreLeads throws
ProgressThrows(l) ==
    /\ oPc = "running"
    /\ lst[l] \in {"reporting", "reportingFallback"}
    /\ Fault
    /\ raisedFor' = [raisedFor EXCEPT ![l] = TRUE]
    /\ IF lst[l] = "reporting"
         THEN /\ batches' = AfterProgressError(batches, l)
              /\ lst' = [lst EXCEPT ![l] = "reportingFallback"]
              /\ UNCHANGED <<oPc, reviewPromiseCache>>
         ELSE /\ reviewPromiseCache' = FinallyEvict(reviewPromiseCache, l)
              /\ lst' = [lst EXCEPT ![l] = "rejected"]
              /\ oPc' = "thrown"
              /\ UNCHANGED batches
    /\ UNCHANGED <<leadIn, reviewPromise, lookup, reviewSnapshot, scoringQueue, scoringTimer,
                   scoringChain, jobVars, limVars, sortVars, cancelVars, scoreVars, resolveVars>>

\* the worker loop ends (queue empty, no worker left), the scoring queue is
\* drained, the results are sorted and returned
OrchReturn ==
    /\ oPc = "running"
    /\ \A l \in Leads : lst[l] = "settled"
    /\ oPc' = "returned"
    /\ UNCHANGED <<leadIn, lst, reviewPromiseCache, reviewPromise, lookup, reviewSnapshot,
                   scoringQueue, scoringTimer, scoringChain, batches, faults, raisedFor, jobVars, limVars, sortVars, cancelVars, scoreVars, resolveVars>>

OrchNext ==
    \/ ScoreFlushTimer
    \/ ProcessScoreChunk
    \/ OrchReturn
    \/ \E l \in Leads :
        \/ CleanDone(l)
        \/ CleanFails(l)
        \/ LookupSettles(l)
        \/ AfterReview(l)
        \/ EnrichmentFails(l)
        \/ ProgressReturns(l)
        \/ ProgressThrows(l)

OrchSpec == OrchInit /\ [][OrchNext]_vars

\* ------------------------------------------------------------ orchestrator: claims

\* C8: two lookups in flight at the same time never belong to leads whose key
\* sets share a key: the second lead reuses the first one's lookup.
C8_OneLookupPerSharedKey ==
    \A p, q \in Leads :
        (p # q /\ lookup[p] = "pending" /\ lookup[q] = "pending") =>
            reviewCacheKeys(p) \cap reviewCacheKeys(q) = {}

\* C9: an error raised in a step of one lead never makes scoreLeads throw, and
\* the run returns exactly one result per lead, the fallback result for a lead
\* an error was raised for.
C9_OneResultPerLeadNoThrow ==
    /\ oPc # "thrown"
    /\ oPc = "returned" =>
        \A l \in Leads :
            /\ Len(batches[l]) = 1
            /\ raisedFor[l] => batches[l] = <<"fallback">>

\* C10: when the scoring call fails for one lead, every lead no error was raised
\* for, the leads of the same chunk included, is returned with its own score.
C10_ScoringFailureIsolated ==
    oPc = "returned" => \A l \in Leads : ~raisedFor[l] => batches[l] = <<"score">>

\* C19: at every moment of a run the leads being processed (taken from the
\* queue and not yet settled) are at most maxConcurrency.
C19_ActiveLeadsAtMostMaxConcurrency ==
    Cardinality(Admitted \cup OrchActive) <= MaxConcurrency

\* every slot is taken by a lead past cleaning and a lead waits in the queue
C19_Witness == Cardinality(OrchActive) = MaxConcurrency /\ OrchQueued # {}

\* ------------------------------------------------------------ limiter

\* the requests of one getMapsSnapshot call, in the order they are sent: the
\* redirect probe of the provided URL, the redirect probe of the api query, the
\* search page, a listing page, the text proxy
RequestStages == {"provided", "api", "search", "place", "jina"}

\* a response: ok, a throttling status (429, 403, 503, 5xx), or no response (timeout, abort, fetch error)
Outcomes == {"ok", "status", "error"}

RequestUrl(stage, provided) ==
    CASE stage = "provided" /\ provided = "goo.gl" -> "https://maps.app.goo.gl/x"
      [] stage = "jina" -> "https://r.jina.ai/https://maps.google.com/maps?q=x"
      [] OTHER -> "https://www.google.com/maps/x"

\* /google\./i.test(url)
isGoogleRequest(url) ==
    CASE url = "https://maps.app.goo.gl/x" -> FALSE
      [] url = "https://r.jina.ai/https://maps.google.com/maps?q=x" -> TRUE
      [] url = "https://www.google.com/maps/x" -> TRUE
      [] OTHER -> FALSE

\* every caller of fetchWithTimeout catches what it throws
wrapperCatches(stage) == stage \in RequestStages

FirstStage(provided) == IF provided = "none" THEN "api" ELSE "provided"

\* the request getMapsSnapshot sends next, or its return; more: the response held
\* what the stage was looking for (a place URL in the search page, a rating in the listing)
NextStage(stage, o, more) ==
    CASE stage = "provided" -> "api"
      [] stage = "api" -> "search"
      [] stage = "search" -> IF o = "ok" /\ more THEN "place" ELSE "jina"
      [] stage = "place" -> IF o = "ok" /\ more THEN "returned" ELSE "jina"
      [] OTHER -> "returned"

maybeResetThrottle(L, t) ==
    IF L.throttleLevel = 0 THEN L
    ELSE IF t - L.lastThrottleAt >= backoffResetMs
      THEN [L EXCEPT !.throttleLevel = 0, !.throttleUntil = 0]
    ELSE L

clearTimer(L) == [L EXCEPT !.pendingTimer = FALSE, !.pendingTimerAt = 0]

scheduleTimer(L, t, delayMs) ==
    LET targetAt == t + Max(delayMs, TimerFloorMs) IN
    IF L.pendingTimer /\ targetAt >= L.pendingTimerAt THEN L
    ELSE [L EXCEPT !.pendingTimer = TRUE, !.pendingTimerAt = targetAt]

AtCapacity_Never(L) == FALSE
AtCapacity(L) == L.active >= LimMaxConcurrency

earliestStart_NoBackoff(L) == L.lastStart + minDelayMs
earliestStart(L) == Max(L.lastStart + minDelayMs, L.throttleUntil)

RECURSIVE processQueue(_, _)
processQueue(L, t) ==
    IF AtCapacity(L) THEN L
    ELSE LET R == maybeResetThrottle(L, t) IN
         IF t < earliestStart(R) THEN scheduleTimer(R, t, earliestStart(R) - t)
         ELSE IF R.queue = <<>> THEN R
         ELSE LET S == [clearTimer(R) EXCEPT !.queue = Tail(R.queue),
                                             !.active = R.active + 1,
                                             !.lastStart = t] IN
              IF S.active < LimMaxConcurrency /\ S.queue # <<>> THEN processQueue(S, t) ELSE S

BackoffDelay_Flat(level) == baseBackoffMs
BackoffDelay(level) == Min(maxBackoffMs, baseBackoffMs * Pow2(Max(level - 1, 0)))

registerThrottle(L, t) ==
    LET level == IF L.throttleLevel < maxThrottleLevel THEN L.throttleLevel + 1 ELSE L.throttleLevel
        until == Max(L.throttleUntil, t + BackoffDelay(level)) IN
    scheduleTimer([L EXCEPT !.lastThrottleAt = t, !.throttleLevel = level, !.throttleUntil = until],
                  t, until - t)

SuccessLevel_Reset(level) == 0
SuccessLevel(level) == Max(level - 1, 0)

ClearsDelay_Always(level) == TRUE
ClearsDelay(level) == level = 0

registerSuccess(L, t) ==
    processQueue(
        IF L.throttleLevel > 0
          THEN [L EXCEPT !.throttleLevel = SuccessLevel(L.throttleLevel),
                         !.throttleUntil = IF ClearsDelay(SuccessLevel(L.throttleLevel)) THEN 0 ELSE @]
          ELSE L,
        t)

InQueue(L) == {L.queue[i] : i \in 1..Len(L.queue)}

\* the executors of the tasks taken from the queue run: each sends its first request
Started(Lold, Lnew, tk) ==
    [x \in Tasks |->
        IF x \in InQueue(Lold) /\ x \notin InQueue(Lnew)
          THEN [tk[x] EXCEPT !.st = FirstStage(tk[x].provided)]
          ELSE tk[x]]

SigNext(k) == IF k < 0 THEN k ELSE Min(k + 1, SigCap)

\* the counters of throttle signals after a step that ran operation op
SigAfter(k, op, levelAfter) ==
    IF op = "throttle" THEN SigNext(k)
    ELSE IF op = "success" THEN (IF levelAfter = 0 THEN 0 ELSE -1)
    ELSE IF k < 0 /\ levelAfter = 0 THEN 0
    ELSE k

SigRAfter(k, op, levelAfter) ==
    IF levelAfter = 0 THEN 0
    ELSE IF op = "throttle" THEN SigNext(k)
    ELSE IF op = "success" THEN -1
    ELSE k

LimStep(L, tk, op) ==
    /\ lim' = L
    /\ task' = tk
    /\ limOp' = op
    /\ sigK' = SigAfter(sigK, op, L.throttleLevel)
    /\ sigKR' = SigRAfter(sigKR, op, L.throttleLevel)
    /\ UNCHANGED <<now, jobVars, orchVars, sortVars, cancelVars, scoreVars, resolveVars>>

\* scheduleMapsLookup: push the task, processQueue; lookups are numbered in the
\* order they are scheduled
Schedule(t) ==
    /\ task[t].st = "idle"
    /\ \A u \in Tasks : u < t => task[u].st # "idle"
    /\ \E h \in ProvidedHosts :
        \E L0 \in {[lim EXCEPT !.queue = Append(@, t)]} :
        \E L1 \in {processQueue(L0, now)} :
        LimStep(L1, Started(L0, L1, [task EXCEPT ![t] = [st |-> "queued", provided |-> h]]), "schedule")

\* the pending timer fires: processQueue
TimerFires ==
    /\ lim.pendingTimer
    /\ now >= lim.pendingTimerAt
    /\ \E L1 \in {processQueue(clearTimer(lim), now)} :
       LimStep(L1, Started(lim, L1, task), "timer")

\* what fetchWithTimeout tells the limiter about a response
Reported(url, o) ==
    IF ~isGoogleRequest(url) THEN (IF o = "ok" THEN "request" ELSE "unreported")
    ELSE IF o = "ok" THEN "success" ELSE "throttle"

\* the finally handler of a started task: this.active = Math.max(this.active - 1, 0)
ReleaseSlot_Leak(L) == L
ReleaseSlot(L) == [L EXCEPT !.active = Max(@ - 1, 0)]

\* the request in flight of lookup t ends: fetchWithTimeout reports it, then
\* getMapsSnapshot sends its next request or returns; on return the limiter
\* releases the slot and runs processQueue
Respond(t) ==
    /\ task[t].st \in RequestStages
    /\ \E o \in Outcomes, more \in BOOLEAN :
        LET stage == task[t].st
            op == Reported(RequestUrl(stage, task[t].provided), o)
            nx == IF o = "error" /\ ~wrapperCatches(stage) THEN "failed" ELSE NextStage(stage, o, more) IN
        \E L1 \in {IF op = "success" THEN registerSuccess(lim, now)
                    ELSE IF op = "throttle" THEN registerThrottle(lim, now)
                    ELSE lim} :
        \E L2 \in {IF nx \in {"returned", "failed"}
                      THEN processQueue(ReleaseSlot(L1), now)
                      ELSE L1} :
        LimStep(L2, Started(lim, L2, [task EXCEPT ![t] = [st |-> nx, provided |-> "none"]]), op)

\* time passes; a timer that is due fires before the clock moves on
LimTick ==
    /\ now < MaxNow
    /\ ~(lim.pendingTimer /\ now >= lim.pendingTimerAt)
    /\ now' = now + 1
    /\ limOp' = "tick"
    /\ UNCHANGED <<lim, task, sigK, sigKR, jobVars, orchVars, sortVars, cancelVars, scoreVars, resolveVars>>

LimNext ==
    \/ TimerFires
    \/ LimTick
    \/ \E t \in Tasks : Schedule(t) \/ Respond(t)

LimInit == JobStart(0) /\ leadIds = [i \in Items |-> i] /\ OrchIdle /\ LimStart /\ SortIdle /\ CancelIdle /\ ScoreIdle /\ ResolveIdle

LimSpec == LimInit /\ [][LimNext]_vars

\* the executor of a started task rejects: the task's promise is rejected with
\* the error, the slot is released and processQueue runs
ExecutorThrows(t) ==
    /\ task[t].st \in RequestStages
    /\ \E L1 \in {processQueue(ReleaseSlot(lim), now)} :
       LimStep(L1, Started(lim, L1, [task EXCEPT ![t] = [st |-> "failed", provided |-> "none"]]), "rejected")

\* an instant t seen one unit of time later, relative to the new Date.now():
\* one unit nearer, and no further back than floor, from where on its distance
\* makes no difference
Earlier(t, floor) == Max(t - 1, Min(t, floor))

\* time passes, seen from the new Date.now(): every instant the limiter holds
\* lies one unit nearer; a timer that is due fires before the clock moves on
ClockShift ==
    /\ ~(lim.pendingTimer /\ now >= lim.pendingTimerAt)
    /\ lim' = [lim EXCEPT !.lastStart = Earlier(@, now - minDelayMs),
                          !.throttleUntil = Earlier(@, 0),
                          !.lastThrottleAt = Earlier(@, now - backoffResetMs),
                          !.pendingTimerAt = Earlier(@, 0)]
    /\ lim' # lim
    /\ limOp' = "tick"
    /\ UNCHANGED <<now, task, sigK, sigKR, jobVars, orchVars, sortVars, cancelVars, scoreVars, resolveVars>>

LiveLimNext ==
    \/ TimerFires
    \/ ClockShift
    \/ \E t \in Tasks : Schedule(t) \/ Respond(t) \/ ExecutorThrows(t)

\* a timer fires, or a request of a started task is answered, or its executor throws
LimProgress ==
    \/ TimerFires
    \/ \E t \in Tasks : Respond(t) \/ ExecutorThrows(t)

\* time passes, and timers fire and executors go on while they can
LiveLimSpec ==
    /\ LimInit /\ [][LiveLimNext]_vars
    /\ WF_vars(ClockShift)
    /\ WF_vars(LimProgress)

\* ------------------------------------------------------------ limiter: claims

ActiveTasks == {t \in Tasks : task[t].st \in RequestStages}

C12_StartsRespectDelayAndBackoff ==
    [][ \A t \in Tasks :
            (task[t].st \in {"idle", "queued"} /\ task'[t].st \in RequestStages) =>
                /\ now >= lim.lastStart + minDelayMs
                /\ now >= lim'.throttleUntil
                /\ lim'.lastStart = now ]_vars

\* a task started once a backoff had run out, after an earlier start
C12_Witness ==
    /\ lim.lastStart = now /\ limOp = "timer"
    /\ lim.throttleLevel > 0 /\ lim.throttleUntil = now
    /\ Cardinality({t \in Tasks : task[t].st \notin {"idle", "queued"}}) >= 2

ClaimedBackoff(k) == Min(maxBackoffMs, baseBackoffMs * Pow2(k - 1))

\* C13 as stated: after the k-th throttle signal since a state with level 0, no
\* success in between, the not-before time is at least now + min(maxBackoff,
\* baseBackoff * 2^(k-1)), and a throttle signal never lowers the not-before time.
C13_BackoffAfterKSignals ==
    /\ []((limOp = "throttle" /\ sigK >= 1) => lim.throttleUntil >= now + ClaimedBackoff(sigK))
    /\ [][limOp' = "throttle" => lim'.throttleUntil >= lim.throttleUntil]_vars

\* C13 amended: the bound holds for the k-th throttle signal since the level was
\* last zero (no success and no reset after a quiet reset window in between), and
\* a throttle signal never lowers the not-before time.
C13_BackoffAfterKSignalsSinceLevelZero ==
    /\ []((limOp = "throttle" /\ sigKR >= 1) => lim.throttleUntil >= now + ClaimedBackoff(sigKR))
    /\ [][limOp' = "throttle" => lim'.throttleUntil >= lim.throttleUntil]_vars

\* a second throttle signal in a row has just been registered
C13_Witness == limOp = "throttle" /\ sigKR >= 2 /\ lim.throttleUntil = now + maxBackoffMs

\* C14 as stated: the not-before time never moves backwards.
C14_NotBeforeMonotonic == [][lim'.throttleUntil >= lim.throttleUntil]_vars

\* C14 amended: the not-before time never moves backwards while the throttle
\* level stays positive; it is only ever lowered by being cleared when the level
\* returns to zero.
C14_NotBeforeMonotonicUntilCleared ==
    [][ \/ lim'.throttleUntil >= lim.throttleUntil
        \/ lim'.throttleLevel = 0 /\ lim'.throttleUntil = 0 ]_vars

\* a success left the level positive and the not-before time in the future
C14_Witness == limOp = "success" /\ lim.throttleLevel > 0 /\ lim.throttleUntil > now

QuietElapsed == lim.throttleLevel > 0 /\ now - lim.lastThrottleAt >= backoffResetMs

C16_QuietWindowResetsBeforeThrottle ==
    [][ (limOp' = "throttle" /\ QuietElapsed) =>
            (lim'.throttleLevel = 1 /\ lim'.throttleUntil = now + baseBackoffMs) ]_vars

\* C17: no request is sent while the limiter's not-before time lies in the future.
C17_NoRequestBeforeNotBefore ==
    [][ \A t \in Tasks :
            (task'[t].st \in RequestStages /\ task'[t].st # task[t].st) =>
                lim'.throttleUntil <= now ]_vars

\* C18: no throttled or failed response makes the lookup fail, and each one is
\* reported to the limiter as a throttle signal.
C18_UpstreamFailureReportedNeverThrown ==
    /\ \A t \in Tasks : task[t].st # "failed"
    /\ limOp # "unreported"

\* C39: a task that settles, failed or not, gives back its slot, and from some
\* moment on no task is waiting in the queue or running: every task handed to
\* the limiter was started and has settled, returned or failed as its executor did.
C39_QueuedTaskStartsAndSettles ==
    /\ [](lim.active = Cardinality(ActiveTasks))
    /\ <>[](\A t \in Tasks : task[t].st \in {"idle", "returned", "failed"})

\* the first task has just failed and the task that waited behind a full
\* limiter was started in its place
C39_Witness ==
    /\ limOp = "rejected"
    /\ task[1].st = "failed"
    /\ \A t \in {2, 3} : task[t].st \in RequestStages

\* ------------------------------------------------------------ result order

\* the lead ids of an input list
SortIds == [SortLeads -> 1..NumSortLeads]

\* new Map(leads.map((lead, index) => [lead.lead_id, index])): a later entry
\* replaces an earlier one with the same lead id
orderMap(id) ==
    LET S == {l \in SortLeads : sIds[l] = id} IN
    IF S = {} THEN 0 ELSE CHOOSE x \in S : \A y \in S : y <= x

\* the sort key of the result of the lead at position l
OrderKey(l) == orderMap(sIds[l])

\* Array.prototype.sort with the orderMap comparator; the sort is stable, results
\* with equal keys keep their order in batches
RECURSIVE InsertByOrder(_, _)
InsertByOrder(sorted, l) ==
    IF sorted = <<>> THEN <<l>>
    ELSE IF OrderKey(l) < OrderKey(Head(sorted)) THEN <<l>> \o sorted
    ELSE <<Head(sorted)>> \o InsertByOrder(Tail(sorted), l)

RECURSIVE SortBatches(_)
SortBatches(b) ==
    IF b = <<>> THEN <<>>
    ELSE InsertByOrder(SortBatches(SubSeq(b, 1, Len(b) - 1)), b[Len(b)])

\* the worker loop: queue.shift() while workers.length < maxConcurrency
SortAdmit ==
    /\ sQueue # <<>>
    /\ Cardinality(sWorkers) < SortMaxConcurrency
    /\ sWorkers' = sWorkers \cup {Head(sQueue)}
    /\ sQueue' = Tail(sQueue)
    /\ UNCHANGED <<sIds, sBatches, sOut, jobVars, orchVars, limVars, cancelVars, scoreVars, resolveVars>>

\* processLead pushes the lead's result and settles; the loop has admitted all it can
SortPush(l) ==
    /\ l \in sWorkers
    /\ sQueue = <<>> \/ Cardinality(sWorkers) = SortMaxConcurrency
    /\ sBatches' = Append(sBatches, l)
    /\ sWorkers' = sWorkers \ {l}
    /\ UNCHANGED <<sIds, sQueue, sOut, jobVars, orchVars, limVars, cancelVars, scoreVars, resolveVars>>

\* the loop ends: batches.sort(...), return
SortReturn ==
    /\ sQueue = <<>>
    /\ sWorkers = {}
    /\ sOut = <<>>
    /\ sOut' = SortBatches(sBatches)
    /\ UNCHANGED <<sIds, sQueue, sWorkers, sBatches, jobVars, orchVars, limVars, cancelVars, scoreVars, resolveVars>>

SortNext ==
    \/ SortAdmit
    \/ SortReturn
    \/ \E l \in SortLeads : SortPush(l)

SortInit ==
    /\ JobStart(0) /\ leadIds = [i \in Items |-> i] /\ OrchIdle /\ LimStart /\ CancelIdle /\ ScoreIdle /\ ResolveIdle
    /\ \E ids \in SortIds : SortStart(ids, [l \in SortLeads |-> l])

SortSpec == SortInit /\ [][SortNext]_vars

\* C20: the returned list is in input order, the i-th result being the one of
\* the i-th input lead, whatever the lead ids and the completion order.
C20_ResultsInInputOrder ==
    sOut # <<>> => \A i \in SortLeads : sOut[i] = i

\* ------------------------------------------------------------ cancel

\* processLead has been called for the lead and has not settled
CancelStages == {"clean", "review", "website", "score", "progress", "fbWebsite", "fbProgress"}
InFlight == {l \in CancelLeads : cStage[l] \in CancelStages}
CancelQueued == {l \in CancelLeads : cStage[l] = "queued"}
AwaitingScore(st) == {l \in CancelLeads : st[l] = "score"}

\* ensureNotAborted() throws LeadScoringAbortError
ensureNotAborted == aborted

\* if (aborted) break, at the top of the worker loop and before each queue.shift()
LoopSeesAbort_Never == FALSE
LoopSeesAbort == aborted

\* the leads the inner loop takes from the queue: from the front, while
\* workers.length < maxConcurrency
Shifted ==
    {l \in CancelQueued :
        Cardinality({m \in CancelQueued : m < l}) + Cardinality(InFlight) < cMax}

\* the abort event fires while the listener is registered
Abort ==
    /\ cPc \in {"wake", "race", "drain", "settle", "finally"}
    /\ ~aborted
    /\ aborted' = TRUE
    /\ UNCHANGED <<cPc, cErr, cStage, cBatches, cProgress, cDrain, cMax, jobVars, orchVars, limVars, sortVars, scoreVars, resolveVars>>

\* one pass of the worker loop, up to its next await: leave the loop when the
\* flag is set or nothing is left, else start processLead for the shifted leads
\* and await Promise.race(workers); with no worker nothing is awaited and the
\* loop goes round again without yielding ("spin"); after the loop,
\* drainScoringQueue() is awaited
LoopIteration ==
    /\ cPc \in {"wake", "spin"}
    /\ IF LoopSeesAbort \/ (CancelQueued = {} /\ InFlight = {})
         THEN /\ cPc' = "drain"
              /\ cDrain' = AwaitingScore(cStage)
              /\ UNCHANGED cStage
         ELSE /\ cPc' = IF InFlight \cup Shifted = {} THEN "spin" ELSE "race"
              /\ cStage' = [l \in CancelLeads |-> IF l \in Shifted THEN "clean" ELSE cStage[l]]
              /\ UNCHANGED cDrain
    /\ UNCHANGED <<aborted, cErr, cBatches, cProgress, cMax, jobVars, orchVars, limVars, sortVars, scoreVars, resolveVars>>

\* await Promise.race(workers) returns as soon as one worker has fulfilled
RaceFulfils_WhenAllSettled(stages, l) == \A m \in CancelLeads \ {l} : stages[m] \notin CancelStages
RaceFulfils(stages, l) == TRUE

\* processLead for lead l moves to stage st; when it settles while the loop
\* awaits Promise.race, the loop resumes (fulfilled) or scoreLeads leaves its try
\* block with the error and awaits drainScoringQueue() in the finally block
Moves(l, st) ==
    /\ cStage' = [cStage EXCEPT ![l] = st]
    /\ IF cPc = "race" /\ st = "done" /\ RaceFulfils(cStage, l)
         THEN cPc' = "wake" /\ UNCHANGED <<cErr, cDrain>>
       ELSE IF cPc = "race" /\ st \in {"cancelled", "failed"}
         THEN /\ cPc' = "finally"
              /\ cErr' = IF st = "cancelled" THEN "abort" ELSE "other"
              /\ cDrain' = AwaitingScore(cStage')
       ELSE UNCHANGED <<cPc, cErr, cDrain>>

\* batches.push(result); options.onProgress(...)
PushAndReport(l) ==
    /\ cBatches' = [cBatches EXCEPT ![l] = @ + 1]
    /\ cProgress' = [cProgress EXCEPT ![l] = @ + 1]

\* an await of the try block returned for lead l: ensureNotAborted(), then the
\* next call is awaited
Checkpoint(l, next) ==
    /\ Moves(l, IF ensureNotAborted THEN "cancelled" ELSE next)
    /\ UNCHANGED <<aborted, cBatches, cProgress, cMax, jobVars, orchVars, limVars, sortVars, scoreVars, resolveVars>>

\* an await of the try block threw for lead l after analyzeWebsite was
\* started: the catch block awaits websitePromise
Caught(l) ==
    /\ Moves(l, "fbWebsite")
    /\ UNCHANGED <<aborted, cBatches, cProgress, cMax, jobVars, orchVars, limVars, sortVars, scoreVars, resolveVars>>

CleanReturns(l) == cStage[l] = "clean" /\ Checkpoint(l, "review")

\* cleanLeadRecord threw: the catch block pushes the fallback result and calls onProgress
CleanThrows(l) ==
    /\ cStage[l] = "clean"
    /\ Moves(l, "fbProgress")
    /\ PushAndReport(l)
    /\ UNCHANGED <<aborted, cMax, jobVars, orchVars, limVars, sortVars, scoreVars, resolveVars>>

ReviewReturns(l) == cStage[l] = "review" /\ Checkpoint(l, "website")
ReviewThrows(l) == cStage[l] = "review" /\ Caught(l)
WebsiteReturns(l) == cStage[l] = "website" /\ Checkpoint(l, "score")
WebsiteThrows(l) == cStage[l] = "website" /\ Caught(l)

\* await enqueueScoreRequest(...) returned: the result is pushed and onProgress called
ScoreReturns(l) ==
    /\ cStage[l] = "score"
    /\ Moves(l, "progress")
    /\ PushAndReport(l)
    /\ UNCHANGED <<aborted, cMax, jobVars, orchVars, limVars, sortVars, scoreVars, resolveVars>>

ScoreThrows(l) == cStage[l] = "score" /\ Caught(l)

\* the catch block's await websitePromise settled: the fallback result is
\* pushed and onProgress called
FallbackWebsiteSettles(l) ==
    /\ cStage[l] = "fbWebsite"
    /\ Moves(l, "fbProgress")
    /\ PushAndReport(l)
    /\ UNCHANGED <<aborted, cMax, jobVars, orchVars, limVars, sortVars, scoreVars, resolveVars>>

\* onProgress returned: processLead fulfils
OnProgressReturns(l) ==
    /\ cStage[l] \in {"progress", "fbProgress"}
    /\ Moves(l, "done")
    /\ UNCHANGED <<aborted, cBatches, cProgress, cMax, jobVars, orchVars, limVars, sortVars, scoreVars, resolveVars>>

\* onProgress threw: in the try block the catch block takes over, in the catch
\* block processLead rejects with the error
OnProgressThrows(l) ==
    /\ cStage[l] \in {"progress", "fbProgress"}
    /\ Moves(l, IF cStage[l] = "progress" THEN "fbWebsite" ELSE "failed")
    /\ UNCHANGED <<aborted, cBatches, cProgress, cMax, jobVars, orchVars, limVars, sortVars, scoreVars, resolveVars>>

\* drainScoringQueue() and flushUsageLogs(true) after the loop returned: with the
\* flag set Promise.allSettled(workers) is awaited, else the results are returned
DrainDone ==
    /\ cPc = "drain"
    /\ cDrain \cap AwaitingScore(cStage) = {}
    /\ cPc' = IF aborted THEN "settle" ELSE "returned"
    /\ UNCHANGED <<aborted, cErr, cStage, cBatches, cProgress, cDrain, cMax, jobVars, orchVars, limVars, sortVars, scoreVars, resolveVars>>

\* Promise.allSettled(workers) returned: throw new LeadScoringAbortError()
SettleDone ==
    /\ cPc = "settle"
    /\ InFlight = {}
    /\ cPc' = "rejected"
    /\ cErr' = "abort"
    /\ UNCHANGED <<aborted, cStage, cBatches, cProgress, cDrain, cMax, jobVars, orchVars, limVars, sortVars, scoreVars, resolveVars>>

\* the finally block of scoreLeads after Promise.race rejected: the listener is
\* removed, the scoring queue drained, and the error reaches the caller
FinallyDone ==
    /\ cPc = "finally"
    /\ cDrain \cap AwaitingScore(cStage) = {}
    /\ cPc' = "rejected"
    /\ UNCHANGED <<aborted, cErr, cStage, cBatches, cProgress, cDrain, cMax, jobVars, orchVars, limVars, sortVars, scoreVars, resolveVars>>

CancelNext ==
    \/ Abort
    \/ LoopIteration
    \/ DrainDone
    \/ SettleDone
    \/ FinallyDone
    \/ \E l \in CancelLeads :
        \/ CleanReturns(l)
        \/ CleanThrows(l)
        \/ ReviewReturns(l)
        \/ ReviewThrows(l)
        \/ WebsiteReturns(l)
        \/ WebsiteThrows(l)
        \/ ScoreReturns(l)
        \/ ScoreThrows(l)
        \/ FallbackWebsiteSettles(l)
        \/ OnProgressReturns(l)
        \/ OnProgressThrows(l)

CancelInit ==
    /\ JobStart(0) /\ leadIds = [i \in Items |-> i] /\ OrchIdle /\ LimStart /\ SortIdle /\ ScoreIdle /\ ResolveIdle
    /\ \E flag \in BOOLEAN : CancelStart(flag, "wake")
    /\ cMax = CancelMaxConcurrency

CancelSpec == CancelInit /\ [][CancelNext]_vars

\* every step of a run but the abort event
RunStep ==
    \/ LoopIteration
    \/ DrainDone
    \/ SettleDone
    \/ FinallyDone
    \/ \E l \in CancelLeads :
        \/ CleanReturns(l)
        \/ CleanThrows(l)
        \/ ReviewReturns(l)
        \/ ReviewThrows(l)
        \/ WebsiteReturns(l)
        \/ WebsiteThrows(l)
        \/ ScoreReturns(l)
        \/ ScoreThrows(l)
        \/ FallbackWebsiteSettles(l)
        \/ OnProgressReturns(l)
        \/ OnProgressThrows(l)

\* the values of options.maxConcurrency a caller passes: zero up to the bound
LiveCancelInit ==
    /\ JobStart(0) /\ leadIds = [i \in Items |-> i] /\ OrchIdle /\ LimStart /\ SortIdle /\ ScoreIdle /\ ResolveIdle
    /\ \E flag \in BOOLEAN : CancelStart(flag, "wake")
    /\ cMax \in 0..CancelMaxConcurrency

\* every collaborator call returns or throws and the event loop runs every
\* continuation that is ready; the abort event may never come
LiveCancelSpec == LiveCancelInit /\ [][CancelNext]_vars /\ WF_vars(RunStep)

\* ------------------------------------------------------------ cancel: claims

\* C21: once the cancellation flag is set, no lead that is still in the work
\* queue is taken from it and started.
C21_NoLeadStartedAfterAbort ==
    [][aborted => \A l \in CancelLeads : cStage[l] = "queued" => cStage'[l] = "queued"]_vars

\* the flag was raised while leads were running, the loop saw it, and the
\* leads it had not started are still in the queue
C21_Witness ==
    /\ aborted
    /\ cPc \in {"drain", "settle", "rejected"}
    /\ CancelQueued # {}
    /\ CancelQueued # CancelLeads

\* C22: when scoreLeads() rejects with the cancellation error, no processLead
\* call of the batch is still running.
C22_AbortErrorOnlyAfterWorkersSettled ==
    (cPc = "rejected" /\ cErr = "abort") => InFlight = {}

\* C23: when an awaited call of processLead completes after the flag was set,
\* no result is pushed and onProgress is not called for that lead.
C23_NoResultAfterAbort ==
    [][\A l \in CancelLeads :
        (aborted /\ cStage[l] \in CancelStages /\ cStage'[l] # cStage[l])
            => (cBatches'[l] = cBatches[l] /\ cProgress'[l] = cProgress[l])]_vars

\* a worker of the loop settles: processLead for lead l fulfils or rejects
SettlesIn(l, outcomes) ==
    /\ cPc = "race"
    /\ ~aborted
    /\ CancelQueued # {}
    /\ cStage[l] \in CancelStages
    /\ cStage'[l] \in outcomes

\* the loop runs a pass with no cancellation raised and a lead in the queue:
\* it starts the leads at the front of the queue, at least one
Refills ==
    (cPc = "wake" /\ cPc' # "wake" /\ ~aborted /\ CancelQueued # {}) =>
        (Shifted # {} /\ \A l \in Shifted : cStage'[l] = "clean")

C38_ProcessTerminates == <>(cPc \in {"returned", "rejected"})

\* ------------------------------------------------------------ score

\* String.prototype.toLowerCase, trim and includes
toLowerCase(str) == [i \in 1..Len(str) |-> IF str[i] \in UpperCase THEN LowerOf[str[i]] ELSE str[i]]

RECURSIVE trimStart(_)
trimStart(str) == IF str # <<>> /\ Head(str) = " " THEN trimStart(Tail(str)) ELSE str

RECURSIVE trimEnd(_)
trimEnd(str) ==
    IF str # <<>> /\ str[Len(str)] = " " THEN trimEnd(SubSeq(str, 1, Len(str) - 1)) ELSE str

trim(str) == trimEnd(trimStart(str))

includes(str, sub) ==
    \E i \in 1..(Len(str) - Len(sub) + 1) : SubSeq(str, i, i + Len(sub) - 1) = sub

\* INDUSTRY_WEIGHTS, in thousandths
WeightSet(w, r, y, p, f) ==
    [website_activity |-> w, reviews |-> r, years_in_business |-> y, revenue_proxies |-> p,
     industry_fit |-> f]

INDUSTRY_WEIGHTS_Skewed ==
    [real_estate |-> WeightSet(300, 300, 150, 150, 100),
     marketing_agency |-> WeightSet(350, 200, 150, 250, 50),
     local_services |-> WeightSet(200, 350, 250, 150, 50),
     financial_services |-> WeightSet(250, 300, 300, 100, 150),
     default |-> WeightSet(250, 250, 200, 200, 100)]
INDUSTRY_WEIGHTS ==
    [real_estate |-> WeightSet(300, 300, 150, 150, 100),
     marketing_agency |-> WeightSet(350, 200, 150, 250, 50),
     local_services |-> WeightSet(200, 350, 250, 150, 50),
     financial_services |-> WeightSet(250, 300, 300, 100, 50),
     default |-> WeightSet(250, 250, 200, 200, 100)]

selectWeights(industry) ==
    IF ~industry.defined \/ industry.text = <<>> THEN INDUSTRY_WEIGHTS.default
    ELSE LET normalized == toLowerCase(trim(industry.text)) IN
        IF includes(normalized, <<"r", "e", "a", "l", " ", "e", "s", "t", "a", "t", "e">>)
            THEN INDUSTRY_WEIGHTS.real_estate
        ELSE IF \/ includes(normalized, <<"a", "g", "e", "n", "c", "y">>)
                \/ includes(normalized, <<"m", "a", "r", "k", "e", "t", "i", "n", "g">>)
            THEN INDUSTRY_WEIGHTS.marketing_agency
        ELSE IF \/ includes(normalized, <<"p", "l", "u", "m", "b">>)
                \/ includes(normalized, <<"r", "e", "p", "a", "i", "r">>)
                \/ includes(normalized, <<"s", "e", "r", "v", "i", "c", "e">>)
            THEN INDUSTRY_WEIGHTS.local_services
        ELSE IF \/ includes(normalized, <<"f", "i", "n", "a", "n", "c", "i", "a", "l">>)
                \/ includes(normalized, <<"i", "n", "s", "u", "r", "a", "n", "c", "e">>)
                \/ includes(normalized, <<"a", "d", "v", "i", "s">>)
            THEN INDUSTRY_WEIGHTS.financial_services
        ELSE INDUSTRY_WEIGHTS.default

\* a ?? b
Coalesce(a, b) == IF a.t \in {"undefined", "null"} THEN b ELSE a

\* Math.round of a number in tenths: to the nearest integer, halves go up
MathRound(tenths) == (tenths + 5) \div Tenth

\* clampScore of a value in tenths: an integer
clampScore(value) ==
    IF value.t # "number" THEN 0 ELSE Min(Max(MathRound(value.v), 0), 10)

\* computeDeterministicReviewScore: rating in tenths, count in units
computeDeterministicReviewScore(reviews) ==
    LET rating == Coalesce(reviews.averageRating, Num(0)).v
        count == Coalesce(reviews.reviewCount, Num(0)).v
        ratingScore == IF rating >= 4 * Tenth THEN 10 ELSE IF rating >= 3 * Tenth THEN 5 ELSE 0
        countScore == IF count >= 50 THEN 10 ELSE IF count >= 10 THEN 5 ELSE IF count > 0 THEN 2 ELSE 0
        average == ((ratingScore + countScore) * Tenth) \div 2
    IN clampScore(Num(average))

\* Number(x.toFixed(2)) of a number in thousandths: the nearest hundredth
toFixed2(thousandths) == (thousandths + 5) \div 10

\* computeFinalScore: sub-scores are integers, weights in thousandths, the result in hundredths
computeFinalScore(scores, weights) ==
    LET weighted ==
            scores.website_activity * weights.website_activity +
            scores.reviews * weights.reviews +
            scores.years_in_business * weights.years_in_business +
            scores.revenue_proxies * weights.revenue_proxies +
            scores.industry_fit * weights.industry_fit
    IN toFixed2(weighted)

\* interpretScore of a score in hundredths
interpretScore(score) ==
    IF score >= 800 THEN "Hot"
    ELSE IF score >= 600 THEN "Qualified"
    ELSE IF score >= 400 THEN "Borderline"
    ELSE "Cold Dead"

\* sanitized.final_score = finalScore
FinalScore_FromModel(in, finalScore) == Coalesce(in.rawFinal, Num(finalScore)).v
FinalScore(in, finalScore) == finalScore

\* the reviews sub-score written to the response
ReviewsScore_FromModel(in, deterministic) == clampScore(Coalesce(in.rawReviews, Num(deterministic * Tenth)))
ReviewsScore(in, deterministic) == deterministic

\* scoreLeadWithModel after callOpenRouter returned the reply
Sanitized(in) ==
    LET weights == selectWeights(in.industry)
        deterministicReviewScore ==
            computeDeterministicReviewScore([averageRating |-> in.rating, reviewCount |-> in.count])
        scores ==
            [website_activity |-> clampScore(Coalesce(in.rawWebsite, Coalesce(in.websiteFinal, Num(0)))),
             reviews |-> ReviewsScore(in, deterministicReviewScore),
             years_in_business |-> clampScore(Coalesce(in.rawYears, Num(0))),
             revenue_proxies |-> clampScore(Coalesce(in.rawRevenue, Num(0))),
             industry_fit |-> clampScore(Coalesce(in.rawFit, Num(0)))]
        finalScore == computeFinalScore(scores, weights)
    IN [scores |-> scores, weights_applied |-> weights, final_score |-> FinalScore(in, finalScore),
        interpretation |-> interpretScore(finalScore)]

\* the fallbackScore of processLead's catch block
FallbackInterpretation_Hot == "Hot"
FallbackInterpretation == "Cold Dead"

fallbackScore(in) ==
    [scores |-> NoScores, weights_applied |-> selectWeights(in.industry), final_score |-> 0,
     interpretation |-> FallbackInterpretation]

\* scoreLeadWithModel is called for the lead
CallModel ==
    /\ scPc = "start"
    /\ scPc' = "called"
    /\ UNCHANGED <<scIn, scOut, jobVars, orchVars, limVars, sortVars, cancelVars, resolveVars>>

\* callOpenRouter returned: the reply is sanitized
ModelReturns ==
    /\ scPc = "called"
    /\ scPc' = "scored"
    /\ scOut' = Sanitized(scIn)
    /\ UNCHANGED <<scIn, jobVars, orchVars, limVars, sortVars, cancelVars, resolveVars>>

\* callOpenRouter threw: processLead builds the fallback result
ModelThrows ==
    /\ scPc = "called"
    /\ scPc' = "fallback"
    /\ scOut' = fallbackScore(scIn)
    /\ UNCHANGED <<scIn, jobVars, orchVars, limVars, sortVars, cancelVars, resolveVars>>

ScoreNext ==
    \/ CallModel
    \/ ModelReturns
    \/ ModelThrows

ScoreInit ==
    /\ JobStart(0) /\ leadIds = [i \in Items |-> i] /\ OrchIdle /\ LimStart /\ SortIdle /\ CancelIdle /\ ResolveIdle
    /\ \E in \in ScoreInputs : ScoreStart(in, "start")

ScoreSpec == ScoreInit /\ [][ScoreNext]_vars

\* ------------------------------------------------------------ score: claims

WeightedSum(scores, weights) ==
    scores.website_activity * weights.website_activity + scores.reviews * weights.reviews
    + scores.years_in_business * weights.years_in_business
    + scores.revenue_proxies * weights.revenue_proxies + scores.industry_fit * weights.industry_fit

WeightTotal(weights) ==
    weights.website_activity + weights.reviews + weights.years_in_business
    + weights.revenue_proxies + weights.industry_fit

\* C24: the final score of a scored lead is the weighted sum of its five
\* sub-scores, each an integer 0..10, under the weight set of its industry,
\* whatever final score the collaborator returned.
C24_FinalScoreIsWeightedSum ==
    scPc = "scored" =>
        /\ \A f \in Factors : scOut.scores[f] \in 0..10
        /\ scOut.weights_applied = selectWeights(scIn.industry)
        /\ scOut.final_score * 10 = WeightedSum(scOut.scores, scOut.weights_applied)

\* the collaborator returned a final score that differs from the weighted sum
C24_Witness ==
    /\ scPc = "scored"
    /\ scIn.rawFinal.t = "number"
    /\ scIn.rawFinal.v # scOut.final_score
    /\ scOut.final_score > 0

\* the reviews sub-score the snapshot determines: 0 for null/null
ReviewScoreTable(rating, count) ==
    LET r == IF rating.t = "number" /\ rating.v >= 40 THEN 10
             ELSE IF rating.t = "number" /\ rating.v >= 30 THEN 5 ELSE 0
        c == IF count.t = "number" /\ count.v >= 50 THEN 10
             ELSE IF count.t = "number" /\ count.v >= 10 THEN 5
             ELSE IF count.t = "number" /\ count.v > 0 THEN 2 ELSE 0
    IN (r + c + 1) \div 2

\* C25: the reviews sub-score of a scored lead depends on the snapshot's rating
\* and review count only, not on the collaborator's value, and is 0 when both
\* are null.
C25_ReviewScoreFromSnapshotAlone ==
    scPc = "scored" =>
        /\ scOut.scores.reviews = ReviewScoreTable(scIn.rating, scIn.count)
        /\ (scIn.rating = Null /\ scIn.count = Null) => scOut.scores.reviews = 0

\* the collaborator proposed another reviews score than the snapshot gives
C25_Witness ==
    /\ scPc = "scored"
    /\ scIn.rawReviews.t = "number"
    /\ clampScore(scIn.rawReviews) # scOut.scores.reviews

\* C26: in scored and in fallback results the interpretation follows from the
\* final score: Hot from 8, Qualified from 6, Borderline from 4, else Cold Dead.
C26_InterpretationFromFinalScore ==
    scPc \in {"scored", "fallback"} =>
        scOut.interpretation =
            CASE scOut.final_score >= 800 -> "Hot"
              [] scOut.final_score \in 600..799 -> "Qualified"
              [] scOut.final_score \in 400..599 -> "Borderline"
              [] OTHER -> "Cold Dead"

\* a fallback result
C26_Witness ==
    /\ scPc = "fallback"
    /\ scOut.interpretation = "Cold Dead"

\* C27: the weight set of every industry sums to 1.0, and the final score of a
\* scored lead lies in 0..10.
C27_WeightsSumToOne ==
    /\ WeightTotal(selectWeights(scIn.industry)) = Thousandth
    /\ scPc = "scored" => scOut.final_score \in 0..(10 * 100)

\* a lead of the financial services industry scored above zero
C27_Witness ==
    /\ scPc = "scored"
    /\ scOut.weights_applied = INDUSTRY_WEIGHTS.financial_services
    /\ scOut.final_score > 0

\* ------------------------------------------------------------ resolve

LowerCase == {"a", "b", "c", "d", "e", "f", "g", "h", "i", "j", "k", "l", "m", "n", "o", "p", "q", "r", "s", "t", "u", "v", "w", "x", "y", "z"}
Digits == {"0", "1", "2", "3", "4", "5", "6", "7", "8", "9"}
AlphaNumeric == LowerCase \cup Digits

GENERIC_TOKENS ==
    {<<"i", "n", "c">>,
     <<"i", "n", "c", ".">>,
     <<"l", "l", "c">>,
     <<"l", "l", "c", ".">>,
     <<"c", "o">>,
     <<"c", "o", ".">>,
     <<"c", "o", "r", "p">>,
     <<"c", "o", "r", "p", "o", "r", "a", "t", "i", "o", "n">>,
     <<"c", "o", "m", "p", "a", "n", "y">>,
     <<"c", "o", "m", "p", "a", "n", "i", "e", "s">>,
     <<"g", "r", "o", "u", "p">>,
     <<"a", "s", "s", "o", "c", "i", "a", "t", "e", "s">>,
     <<"a", "s", "s", "o", "c">>,
     <<"a", "s", "s", "o", "c", "i", "a", "t", "i", "o", "n">>,
     <<"e", "n", "t", "e", "r", "p", "r", "i", "s", "e">>,
     <<"e", "n", "t", "e", "r", "p", "r", "i", "s", "e", "s">>,
     <<"l", "t", "d">>,
     <<"l", "t", "d", ".">>,
     <<"l", "i", "m", "i", "t", "e", "d">>,
     <<"p", "c">>,
     <<"p", "l", "c">>,
     <<"p", "l", "l", "c">>,
     <<"l", "l", "p">>,
     <<"a", "n", "d">>,
     <<"f", "o", "r">>,
     <<"w", "i", "t", "h">>,
     <<"t", "h", "e">>,
     <<"o", "f">>,
     <<"i", "n">>,
     <<"n", "e", "a", "r">>,
     <<"a", "t">>,
     <<"t", "o">>,
     <<"b", "y">>,
     <<"o", "n">>,
     <<"a">>,
     <<"a", "n">>,
     <<"a", "m", "p">>,
     <<"s", "y", "s", "t", "e", "m">>}

\* query.replace(/([a-z])([A-Z])/g, "$1 $2")
RECURSIVE camelSeparate(_)
camelSeparate(str) ==
    IF Len(str) < 2 THEN str
    ELSE IF str[1] \in LowerCase /\ str[2] \in UpperCase
        THEN <<str[1], " ">> \o camelSeparate(Tail(str))
    ELSE <<str[1]>> \o camelSeparate(Tail(str))

\* replace(/[^a-z0-9]+/g, " ").split(" "), without the empty strings
RECURSIVE SplitWords(_, _, _)
SplitWords(str, cur, acc) ==
    IF str = <<>> THEN (IF cur = <<>> THEN acc ELSE Append(acc, cur))
    ELSE IF Head(str) \in AlphaNumeric THEN SplitWords(Tail(str), Append(cur, Head(str)), acc)
    ELSE SplitWords(Tail(str), <<>>, IF cur = <<>> THEN acc ELSE Append(acc, cur))

\* /^[0-9]+$/.test(token)
allDigits(token) == token # <<>> /\ \A i \in 1..Len(token) : token[i] \in Digits

\* the first occurrence of each token, in order
RECURSIVE Unique(_, _)
Unique(tokens, acc) ==
    IF tokens = <<>> THEN acc
    ELSE Unique(Tail(tokens),
                IF \E i \in 1..Len(acc) : acc[i] = Head(tokens) THEN acc ELSE Append(acc, Head(tokens)))

\* a value is named once and used under that name
With(value, Body(_)) == Body(value)

\* a, or b when a is empty
OrElse(a, b) == IF a # <<>> THEN a ELSE b

tokenizeQuery(query) ==
    With(SelectSeq(SplitWords(toLowerCase(camelSeparate(query)), <<>>, <<>>),
                   LAMBDA t : t \notin GENERIC_TOKENS),
         LAMBDA baseTokens :
            Unique(OrElse(SelectSeq(baseTokens, LAMBDA t : Len(t) >= 3 /\ ~allDigits(t)),
                          SelectSeq(baseTokens, LAMBDA t : Len(t) >= 2 /\ ~allDigits(t))),
                   <<>>))

\* the collapsed name is a strong token when the name has no whitespace
strongTokensOf(trimmed, collapsed) ==
    IF /\ ~(\E i \in 1..Len(trimmed) : trimmed[i] = " ")
       /\ Len(collapsed) >= 4
       /\ ~allDigits(collapsed)
    THEN <<collapsed>> ELSE <<>>

deriveIdentityTokens(value) ==
    With(IF value.defined THEN trim(value.text) ELSE <<>>,
         LAMBDA trimmed :
            IF trimmed = <<>> THEN [tokens |-> <<>>, strongTokens |-> <<>>]
            ELSE With(strongTokensOf(trimmed, SelectSeq(toLowerCase(trimmed), LAMBDA c : c \in AlphaNumeric)),
                      LAMBDA strong :
                        [tokens |-> Unique(strong \o SelectSeq(
                                        SplitWords(toLowerCase(camelSeparate(trimmed)), <<>>, <<>>),
                                        LAMBDA t : ~allDigits(t) /\ t \notin GENERIC_TOKENS /\ Len(t) >= 3),
                                    <<>>),
                         strongTokens |-> strong]))

\* scoreLeads: [cleaned.company, cleaned.location].filter(Boolean).join(" "),
\* trimmed by fetchGoogleMapsReviews
lookupQuery(in) ==
    LET company == IF in.company.defined THEN in.company.text ELSE <<>> IN
    trim(IF company # <<>> /\ in.location # <<>> THEN company \o <<" ">> \o in.location
         ELSE company \o in.location)

\* the token sets getMapsSnapshot derives from its arguments
TokenSets(queryTokens, companyTokens, uniqueRequiredTokens) ==
    [queryTokens |-> queryTokens,
     identityTokens |-> OrElse(companyTokens, queryTokens),
     uniqueRequiredTokens |-> uniqueRequiredTokens,
     minRequiredMatches |-> IF Len(uniqueRequiredTokens) >= 2 THEN 2 ELSE Len(uniqueRequiredTokens)]

TokenSetup(in) ==
    With(deriveIdentityTokens(in.company),
         LAMBDA derived :
            TokenSets(tokenizeQuery(lookupQuery(in)),
                      derived.tokens,
                      Unique(OrElse(derived.strongTokens, derived.tokens), <<>>)))

\* tokens.filter((token) => text.toLowerCase().includes(token))
Matched(tokens, text) == SelectSeq(tokens, LAMBDA t : includes(toLowerCase(text), t))

matchesIdentityTokens_AnyToken(tk, text) ==
    text # <<>> /\ (tk.identityTokens = <<>> \/ Matched(tk.identityTokens, text) # <<>>)
matchesIdentityTokens(tk, text) ==
    IF text = <<>> THEN FALSE
    ELSE IF tk.identityTokens = <<>> THEN TRUE
    ELSE With(Matched(tk.identityTokens, text),
              LAMBDA matchedTokens :
                IF matchedTokens = <<>> THEN FALSE
                ELSE IF tk.minRequiredMatches = 0 THEN TRUE
                ELSE Len(SelectSeq(matchedTokens,
                                   LAMBDA t : \E i \in 1..Len(tk.uniqueRequiredTokens) :
                                                    tk.uniqueRequiredTokens[i] = t))
                        >= tk.minRequiredMatches)

MAX_REVIEW_COUNT == 100000

\* sanitizeSnapshot: ratings are kept in tenths
sanitizeSnapshot(rating, reviewCount, method) ==
    [averageRating |-> rating,
     reviewCount |-> IF reviewCount.t = "number"
                       THEN Num(Min(Max(reviewCount.v, 0), MAX_REVIEW_COUNT)) ELSE Null,
     method |-> method]

HasNumbers(snapshot) == snapshot.averageRating # Null \/ snapshot.reviewCount # Null

\* placeHtml.html.slice(0, 5000)
htmlPrefix(html) == SubSeq(html, 1, Min(Len(html), 5000))

\* attemptPlace after fetchPlaceHtml returned the page
PlaceIdentityMatch(tk, page) ==
    \/ matchesIdentityTokens(tk, page.url)
    \/ matchesIdentityTokens(tk, page.title)
    \/ matchesIdentityTokens(tk, htmlPrefix(page.html))

NoMatchMethod(method) == method \o ":nomatch"

attemptPlace(tk, page, method) ==
    IF ~PlaceIdentityMatch(tk, page) THEN sanitizeSnapshot(Null, Null, NoMatchMethod(method))
    ELSE IF page.markup = "none" THEN sanitizeSnapshot(Null, Null, method \o ":none")
    ELSE sanitizeSnapshot(page.rating, page.count, method \o ":" \o page.markup)

\* what attemptPlace pushes to methodsTried
TriedLabel(tk, page, method) ==
    IF page = NoPage THEN method \o ":fetch_failed"
    ELSE IF PlaceIdentityMatch(tk, page) THEN method ELSE method \o ":nomatch"

\* [headless.name, headless.title, headless.address].filter(Boolean).join(" | ")
RECURSIVE JoinTexts(_, _)
JoinTexts(texts, sep) ==
    IF texts = <<>> THEN <<>>
    ELSE IF Len(texts) = 1 THEN texts[1]
    ELSE texts[1] \o sep \o JoinTexts(Tail(texts), sep)

identityText(r) ==
    JoinTexts(SelectSeq(<<r.name, r.title, r.address>>, LAMBDA t : t # <<>>), <<" ", "|", " ">>)

\* methodsTried.join("->")
RECURSIVE JoinMethods(_)
JoinMethods(tried) ==
    IF tried = <<>> THEN ""
    ELSE IF Len(tried) = 1 THEN tried[1]
    ELSE tried[1] \o "->" \o JoinMethods(Tail(tried))

\* an identity token of the company name occurs in one of the texts
CompanyTokens(in) == deriveIdentityTokens(in.company).tokens
TokensIn(in, texts) ==
    SelectSeq(CompanyTokens(in), LAMBDA t : \E i \in 1..Len(texts) : includes(toLowerCase(texts[i]), t))
SeesIdentity(in, texts) == TokensIn(in, texts) # <<>>

\* fetchViaJina after the response: the sort key of a candidate and the winner
JinaKeyOf(matchedTokens, requiredMatches, primaryMatches, hasRequired, reviewCount) ==
    [identity |-> IF hasRequired THEN requiredMatches ELSE matchedTokens,
     primary |-> primaryMatches,
     tokenScore |-> matchedTokens + primaryMatches,
     matched |-> matchedTokens,
     reviewCount |-> IF reviewCount.t = "number" THEN reviewCount.v ELSE 0]
JinaKey(c, matchTokens, requiredTokens, primaryTokens) ==
    JinaKeyOf(Len(Matched(matchTokens, c.snippet)),
              Len(Matched(requiredTokens, c.snippet)),
              Len(Matched(primaryTokens, c.snippet)),
              requiredTokens # <<>>, c.reviewCount)

\* a sorts before b
JinaBefore(a, b) ==
    \/ a.identity > b.identity
    \/ a.identity = b.identity /\ a.primary > b.primary
    \/ a.identity = b.identity /\ a.primary = b.primary /\ a.tokenScore > b.tokenScore
    \/ /\ a.identity = b.identity /\ a.primary = b.primary /\ a.tokenScore = b.tokenScore
       /\ a.reviewCount > b.reviewCount

\* the candidates that pass the filter, and the one the sort puts first
JinaScored(keys, requiredTokens, minRequiredMatches) ==
    {i \in DOMAIN keys :
        /\ keys[i].tokenScore > 0
        /\ IF requiredTokens = <<>> THEN keys[i].matched > 0
           ELSE keys[i].identity >= Max(1, minRequiredMatches)}
JinaFirst(keys, scored) ==
    {i \in scored : \A j \in scored \ {i} :
        JinaBefore(keys[i], keys[j]) \/ (~JinaBefore(keys[j], keys[i]) /\ i < j)}

JinaResult(response, first, methodLabel) ==
    IF first = {} THEN NullSnapshot
    ELSE With(response[CHOOSE i \in first : TRUE],
              LAMBDA primary :
                IF primary.rating.t # "number" \/ primary.reviewCount.t # "number" THEN NullSnapshot
                ELSE sanitizeSnapshot(primary.rating, primary.reviewCount, methodLabel))

JinaPick(response, keys, requiredTokens, minRequiredMatches, methodLabel) ==
    JinaResult(response, JinaFirst(keys, JinaScored(keys, requiredTokens, minRequiredMatches)), methodLabel)

JinaMatch(matchTokens, primaryTokens, requiredTokens, minRequiredMatches, methodLabel, ok, response) ==
    IF matchTokens = <<>> \/ ~ok \/ response = <<>> THEN NullSnapshot
    ELSE JinaPick(response,
                  [i \in 1..Len(response) |-> JinaKey(response[i], matchTokens, requiredTokens, primaryTokens)],
                  requiredTokens, minRequiredMatches, methodLabel)

fetchViaJina(query, identityTokens, requiredTokens, minRequiredMatches, methodLabel, ok, response) ==
    With(IF identityTokens # <<>> THEN identityTokens ELSE tokenizeQuery(query),
         LAMBDA matchTokens :
            JinaMatch(matchTokens,
                      IF requiredTokens # <<>> THEN requiredTokens
                      ELSE SubSeq(matchTokens, 1, Min(Len(matchTokens), 3)),
                      requiredTokens, minRequiredMatches, methodLabel, ok, response))

\* the texts of the candidates of a text-proxy response
SnippetsOf(response) == [i \in 1..Len(response) |-> response[i].snippet]

NotFound == [averageRating |-> Null, reviewCount |-> Null, method |-> "not_found"]

\* followRedirect(providedUrl), resolveViaApiQuery(query), resolveWithHeadless(...):
\* the rendered candidate is verified; with numbers it is returned
\* what one attemptPlace call gives for each argument set and page
PlaceMethods == {"provided", "serp_place", "api_query"}
AttemptResult(tk, in, page, method) ==
    [snapshot |-> attemptPlace(tk, page, method),
     tried |-> TriedLabel(tk, page, method),
     sees |-> SeesIdentity(in, <<page.url, page.title, htmlPrefix(page.html)>>),
     match |-> PlaceIdentityMatch(tk, page)]
AttemptOf ==
    [in \in ResolveInputs, page \in Pages \cup {NoPage}, method \in PlaceMethods |->
        AttemptResult(TokenSetup(in), in, page, method)]

\* what getMapsSnapshot makes of each headless result
RenderedResult(matchesIdentity, methodLabel, in, r) ==
    [matchesIdentity |-> matchesIdentity,
     methodLabel |-> methodLabel,
     snapshot |-> sanitizeSnapshot(IF matchesIdentity THEN r.rating ELSE Null,
                                   IF matchesIdentity THEN r.count ELSE Null, methodLabel),
     sees |-> SeesIdentity(in, <<r.name, r.title, r.address>>)]
RenderedOf ==
    [in \in ResolveInputs, r \in Rendered |->
        With(matchesIdentityTokens(TokenSetup(in), identityText(r)),
             LAMBDA matchesIdentity :
                RenderedResult(matchesIdentity,
                               IF matchesIdentity THEN r.strategy ELSE NoMatchMethod(r.strategy),
                               in, r))]

\* the tokens of the last pass
looseTokens(tk) == IF tk.queryTokens # <<>> THEN tk.queryTokens ELSE tk.identityTokens

\* the three fetchViaJina calls of getMapsSnapshot
JinaPasses == {"jina_text", "jina_text_relaxed", "jina_text_loose"}
JinaCall(tk, query, pass, ok, response) ==
    CASE pass = "jina_text" ->
            fetchViaJina(query, tk.identityTokens, tk.uniqueRequiredTokens,
                         tk.minRequiredMatches, pass, ok, response)
      [] pass = "jina_text_relaxed" ->
            fetchViaJina(query, tk.identityTokens,
                         SubSeq(tk.uniqueRequiredTokens, 1, Min(1, Len(tk.uniqueRequiredTokens))),
                         Min(1, Len(tk.uniqueRequiredTokens)), pass, ok, response)
      [] pass = "jina_text_loose" ->
            fetchViaJina(query, looseTokens(tk), <<>>, 0, pass, ok, response)
JinaOf ==
    [in \in ResolveInputs, pass \in JinaPasses, ok \in BOOLEAN, response \in JinaResponses |->
        [snapshot |-> JinaCall(TokenSetup(in), lookupQuery(in), pass, ok, response),
         sees |-> ok /\ SeesIdentity(in, SnippetsOf(response))]]

\* per argument set: which text passes run, and whether a pass has a token to match
PassInfo(tk, queryTokens) ==
    [minRequiredMatches |-> tk.minRequiredMatches,
     hasLooseTokens |-> looseTokens(tk) # <<>>,
     hasMatchTokens |-> tk.identityTokens # <<>> \/ queryTokens # <<>>]
TokensOf ==
    [in \in ResolveInputs |-> PassInfo(TokenSetup(in), tokenizeQuery(lookupQuery(in)))]

\* snapshot.averageRating !== null || snapshot.reviewCount !== null: the guard
\* of every cache.set and of the cached return
Returnable_Any(snapshot) == TRUE
Returnable(snapshot) == HasNumbers(snapshot)

CacheEntry(snapshot) == [snapshot |-> snapshot, expiresAt |-> rNow + MAPS_CACHE_TTL_MS]

\* the strategy a listing fetch belongs to
StrategyOf(method) ==
    CASE method = "provided" -> "direct"
      [] method = "serp_place" -> "search"
      [] method = "api_query" -> "api"

\* a call begins: the cached snapshot is returned while it is fresh and has a
\* number; otherwise the call's locals are set up
CacheLookup ==
    /\ rPc = "lookup"
    /\ rCalledAt' = [rCalledAt EXCEPT ![rCall] = rNow]
    /\ IF /\ rCache # NoEntry
          /\ rCache.expiresAt > rNow
          /\ Returnable(rCache.snapshot)
         THEN /\ rPc' = "done"
              /\ rOut' = rCache.snapshot
              /\ UNCHANGED <<rApi, rTried, rHeadless, rFrom, rIdentitySeen, rMismatch>>
         ELSE /\ rPc' = "start"
              /\ rApi' = FALSE
              /\ rTried' = <<>>
              /\ rHeadless' = NullSnapshot
              /\ rFrom' = NoTexts
              /\ rIdentitySeen' = FALSE
              /\ rMismatch' = FALSE
              /\ UNCHANGED rOut
    /\ UNCHANGED <<rIn, rCache, rNet, rLog, rNow, rCall, rFirst,
                   jobVars, orchVars, limVars, sortVars, cancelVars, scoreVars>>

ResolveHeadless ==
    /\ rPc = "start"
    /\ \E api \in BOOLEAN, enabled \in BOOLEAN, r \in Rendered :
       \E h \in {RenderedOf[rIn, r]} :
        /\ rApi' = api
        /\ rNet' = rNet + (IF rIn.provided THEN 1 ELSE 0) + 1 + (IF enabled THEN 1 ELSE 0)
        /\ IF ~enabled
             THEN /\ rPc' = "provided"
                  /\ UNCHANGED <<rTried, rHeadless, rOut, rFrom, rIdentitySeen, rMismatch, rCache, rLog>>
             ELSE /\ rTried' = Append(rTried, h.methodLabel)
                  /\ rLog' = Append(rLog, "rendering")
                  /\ rHeadless' = h.snapshot
                  /\ rIdentitySeen' = (rIdentitySeen \/ h.sees)
                  /\ rMismatch' = (rMismatch \/ ~h.matchesIdentity)
                  /\ IF h.matchesIdentity /\ Returnable(h.snapshot)
                       THEN /\ rPc' = "done"
                            /\ rOut' = h.snapshot
                            /\ rFrom' = <<r.name, r.title, r.address>>
                            /\ rCache' = CacheEntry(h.snapshot)
                       ELSE /\ rPc' = "provided"
                            /\ UNCHANGED <<rOut, rFrom, rCache>>
    /\ UNCHANGED <<rIn, callVars, jobVars, orchVars, limVars, sortVars, cancelVars, scoreVars>>

\* one attemptPlace(url, method) call and what getMapsSnapshot does with its
\* result: page = NoPage when fetchPlaceHtml returned null; before = the
\* requests the strategy issued before fetchPlaceHtml
Attempt(page, method, next, before) ==
    \E a \in {AttemptOf[rIn, page, method]} :
    /\ rTried' = Append(rTried, a.tried)
    /\ rNet' = rNet + before + 1
    /\ rLog' = Append(rLog, StrategyOf(method))
    /\ IF page = NoPage
         THEN /\ rPc' = next
              /\ UNCHANGED <<rOut, rFrom, rIdentitySeen, rMismatch, rCache>>
         ELSE /\ rIdentitySeen' = (rIdentitySeen \/ a.sees)
              /\ rMismatch' = (rMismatch \/ ~a.match)
              /\ IF Returnable(a.snapshot)
                   THEN /\ rPc' = "done"
                        /\ rOut' = a.snapshot
                        /\ rFrom' = <<page.url, page.title, htmlPrefix(page.html)>>
                        /\ rCache' = CacheEntry(a.snapshot)
                   ELSE /\ rPc' = next
                        /\ UNCHANGED <<rOut, rFrom, rCache>>
    /\ UNCHANGED <<rIn, rApi, rHeadless, callVars, jobVars, orchVars, limVars, sortVars, cancelVars, scoreVars>>

\* the strategy's condition is false: nothing is fetched
Skip(next) ==
    /\ rPc' = next
    /\ UNCHANGED <<rIn, rApi, rTried, rHeadless, rOut, rFrom, rIdentitySeen, rMismatch,
                   rCache, rNet, rLog, callVars,
                   jobVars, orchVars, limVars, sortVars, cancelVars, scoreVars>>

\* fetchSearchHtml returned null, or its html holds no place URL
SearchWithoutPlace(next) ==
    /\ rPc' = next
    /\ rNet' = rNet + 1
    /\ rLog' = Append(rLog, "search")
    /\ UNCHANGED <<rIn, rApi, rTried, rHeadless, rOut, rFrom, rIdentitySeen, rMismatch,
                   rCache, callVars,
                   jobVars, orchVars, limVars, sortVars, cancelVars, scoreVars>>

\* the provided URL, when it resolved to a /maps/place URL
ProvidedPlace ==
    /\ rPc = "provided"
    /\ IF rIn.provided THEN \E page \in Pages \cup {NoPage} : Attempt(page, "provided", "serp", 0)
       ELSE Skip("serp")

\* fetchSearchHtml and extractPlaceUrlFromHtml: a place URL was found, or not
SerpPlace ==
    /\ rPc = "serp"
    /\ \/ \E page \in Pages \cup {NoPage} : Attempt(page, "serp_place", "api", 1)
       \/ SearchWithoutPlace("api")

\* the URL resolveViaApiQuery returned
ApiPlace ==
    /\ rPc = "api"
    /\ IF rApi THEN \E page \in Pages \cup {NoPage} : Attempt(page, "api_query", "jina", 0)
       ELSE Skip("jina")

\* one fetchViaJina pass: its snapshot is returned, or the next pass follows
\* one fetchViaJina pass: the request is issued when there is a token to
\* match; its snapshot is returned without cache.set, or the next pass follows
JinaPass(pass, next, hasMatchTokens) ==
    \E ok \in BOOLEAN, response \in JinaResponses :
       \E j \in {JinaOf[rIn, pass, ok, response]} :
        /\ rIdentitySeen' = (rIdentitySeen \/ j.sees)
        /\ rNet' = rNet + (IF hasMatchTokens THEN 1 ELSE 0)
        /\ rLog' = Append(rLog, "text")
        /\ IF j.snapshot # NullSnapshot
             THEN rPc' = "done" /\ rOut' = j.snapshot
             ELSE rPc' = next /\ UNCHANGED rOut
        /\ UNCHANGED <<rIn, rApi, rTried, rHeadless, rFrom, rMismatch, rCache, callVars,
                       jobVars, orchVars, limVars, sortVars, cancelVars, scoreVars>>

\* the text passes in turn: jina_text, jina_text_relaxed when two required
\* tokens were asked for, jina_text_loose when there is a loose token
JinaText ==
    /\ rPc \in {"jina", "relaxed", "loose"}
    /\ \E tok \in {TokensOf[rIn]} :
        CASE rPc = "jina" -> JinaPass("jina_text", "relaxed", tok.hasMatchTokens)
          [] rPc = "relaxed" ->
                IF tok.minRequiredMatches > 1
                THEN JinaPass("jina_text_relaxed", "loose", tok.hasMatchTokens)
                ELSE Skip("loose")
          [] rPc = "loose" ->
                IF tok.hasLooseTokens
                THEN JinaPass("jina_text_loose", "fallback", tok.hasMatchTokens)
                ELSE Skip("fallback")

\* nothing was returned: the fallback snapshot, or the not_found sentinel when
\* it has no numbers
Fallback ==
    /\ rPc = "fallback"
    /\ LET fallbackMethod ==
                IF rHeadless # NullSnapshot THEN rHeadless.method
                ELSE IF rTried # <<>> THEN JoinMethods(rTried) ELSE "none"
           fallback == sanitizeSnapshot(rHeadless.averageRating, rHeadless.reviewCount, fallbackMethod)
       IN rOut' = IF ~HasNumbers(fallback) THEN NotFound ELSE fallback
    /\ rPc' = "done"
    /\ UNCHANGED <<rIn, rApi, rTried, rHeadless, rFrom, rIdentitySeen, rMismatch,
                   rCache, rNet, rLog, callVars,
                   jobVars, orchVars, limVars, sortVars, cancelVars, scoreVars>>

\* the caller calls getMapsSnapshot again with the same arguments
ResolveAgain ==
    /\ rPc = "done"
    /\ rCall = 1
    /\ rCall' = 2
    /\ rFirst' = rOut
    /\ rPc' = "lookup"
    /\ rNet' = 0
    /\ rLog' = <<>>
    /\ UNCHANGED <<rIn, rApi, rTried, rHeadless, rOut, rFrom, rIdentitySeen, rMismatch,
                   rCache, rNow, rCalledAt,
                   jobVars, orchVars, limVars, sortVars, cancelVars, scoreVars>>

\* time passes
ResolveTick ==
    /\ rPc \notin {"idle"}
    /\ rNow < ResolveMaxNow
    /\ rNow' = rNow + 1
    /\ UNCHANGED <<rPc, rIn, rApi, rTried, rHeadless, rOut, rFrom, rIdentitySeen, rMismatch,
                   rCache, rCall, rFirst, rCalledAt, rNet, rLog,
                   jobVars, orchVars, limVars, sortVars, cancelVars, scoreVars>>

ResolveNext ==
    \/ CacheLookup
    \/ ResolveHeadless
    \/ ProvidedPlace
    \/ SerpPlace
    \/ ApiPlace
    \/ JinaText
    \/ Fallback
    \/ ResolveAgain
    \/ ResolveTick

ResolveInit ==
    /\ JobStart(0) /\ leadIds = [i \in Items |-> i] /\ OrchIdle /\ LimStart /\ SortIdle /\ CancelIdle /\ ScoreIdle
    /\ \E in \in ResolveInputs : ResolveStart(in, "lookup")

ResolveSpec == ResolveInit /\ [][ResolveNext]_vars

\* ------------------------------------------------------------ resolve: claims

ListingMethods ==
    {m \o ":" \o k : m \in {"provided", "serp_place", "api_query"}, k \in {"ldjson", "aria", "regex"}}
        \cup {r.strategy : r \in Rendered}

C29_NotFoundWithoutIdentityToken ==
    (rPc = "done" /\ CompanyTokens(rIn) # <<>> /\ ~rIdentitySeen) => rOut = NotFound

\* C30: when a listing candidate failed verification and no numbers are
\* returned, the returned method records the mismatch and is not the method
\* returned when no candidate was found.
C30_MethodRecordsMismatch ==
    (rPc = "done" /\ rMismatch /\ ~HasNumbers(rOut)) => rOut.method # "not_found"

\* the second call was made before the first call's cache lifetime ended
WithinTtl == rCalledAt[2] < rCalledAt[1] + MAPS_CACHE_TTL_MS
SecondCallDone == rPc = "done" /\ rCall = 2

\* C31: a second call with the same arguments within the cache lifetime of the
\* first, whose result had numbers, issues at most one network request and
\* returns what the first call returned.
C31_SecondCallIsCacheHit ==
    (SecondCallDone /\ WithinTtl /\ HasNumbers(rFirst)) => (rNet <= 1 /\ rOut = rFirst)

NotFoundLookupEvicted ==
    \A l \in Leads :
        reviewSnapshot[l] = "not_found" =>
            \A k \in reviewCacheKeys(l) : reviewPromiseCache[k] # reviewPromise[l]

StrategyRank(strategy) ==
    CASE strategy = "direct" -> 1
      [] strategy = "rendering" -> 2
      [] strategy = "search" -> 3
      [] strategy = "api" -> 4
      [] strategy = "text" -> 5

\* C36: the strategies of a call are attempted in the order direct listing
\* URL, rendering, search page, API redirect, text proxy, and once a call has
\* returned nothing more is attempted.
C36_StrategiesInFixedOrder ==
    [][/\ \A i, j \in 1..Len(rLog') :
            i < j => StrategyRank(rLog'[i]) <= StrategyRank(rLog'[j])
       /\ (rPc = "done" /\ rPc' = "done") => rLog' = rLog]_vars

\* ------------------------------------------------------------ job: items

\* C33: when scoreLeads throws, the update of the catch block leaves the job
\* failed, and the update that follows makes every item that was still queued
\* or processing failed and leaves every other item's status and result alone.
C33_ThrowFailsJobAndRemainingItems ==
    [][\A w \in Workers :
        /\ (wk[w].pc = "failJob" /\ wk'[w].pc = "failItems") => job'.status = "failed"
        /\ (wk[w].pc = "failItems" /\ wk'[w].pc # "failItems") =>
                \A i \in Items :
                    /\ itemResult'[i] = itemResult[i]
                    /\ itemStatus'[i] =
                            IF itemStatus[i] \in {"queued", "processing"}
                              THEN "failed" ELSE itemStatus[i]]_vars

\* C34: an item that holds a result holds the result of its own payload, also
\* when the items of the job share a lead id.
C34_ItemHoldsResultOfOwnPayload ==
    \A i \in Items : itemResult[i] # 0 => itemResult[i] = i

\* C35: every item whose status is completed has a result.
C35_CompletedItemHasResult ==
    \A i \in Items : itemStatus[i] = "completed" => itemResult[i] # 0

\* the catch block marked an item failed while another item is completed
C35_Witness ==
    \E i, j \in Items : itemStatus[i] = "completed" /\ itemStatus[j] = "failed"

\* the invocation claimed the job and its scoreLeads call has not returned
HoldsJob(r) == r.pc = "scoring"

\* C40: while an invocation that claimed the job is still running it, no
\* other invocation's claim on the job succeeds.
C40_NoClaimWhileLiveWorkerRuns ==
    [][\A w, v \in Workers :
        (w # v /\ HoldsJob(wk[v]) /\ wk[w].pc \in {"casQueued", "casReclaim"}) =>
            wk'[w].pc # "reloadJob"]_vars

====
